---------------------------- MODULE Spec2Model ----------------------------
(***************************************************************************)
(* A model of coppercomm's serial console session                          *)
(* (src/src/coppercomm/device_serial/serial_console_interface.py):         *)
(* the background reader thread (run), the foreground operations           *)
(* (send_command, expect, with their helpers _send_command, _expect and    *)
(* _get_line), close_console, and the pattern helpers; and of the          *)
(* package's execute_command (device_common/local_console.py), Config and  *)
(* find_config_file (config_file_parser.py), Adb                           *)
(* (device_adb/adb_interface.py), Console.send_line_and_expect             *)
(* (device_serial/console.py), AdbLoggerThread                             *)
(* (loggers/adb_logger/adb_logger_thread.py) and the state monitors        *)
(* (device_state_monitor), each under its own specification.               *)
(*                                                                         *)
(* Text is a sequence of one-character strings.  A step of a thread is     *)
(* one action; a line pull (_get_line) has a beginning and an end, because *)
(* the call blocks for up to the poll interval.                            *)
(***************************************************************************)
EXTENDS Integers, Sequences, FiniteSets, TLC

(***************************************************************************)
(* Bounds of the model.                                                    *)
(***************************************************************************)
\* captured lines per expect cycle
MaxLines == 3
\* line pulls inside one echo window of _send_command
MaxEchoPulls == 2
\* largest max_retypes a caller passes
MaxRetypes == 2
\* pulls recorded for a device that sends a script
MaxPulls == 4
\* get_state polls of one wait_for_state call before its deadline
MaxPolls == 2

(***************************************************************************)
(* Program constants.                                                      *)
(***************************************************************************)
NOT_EXPECTING == -1
PROMPT_ONLY == -2

(***************************************************************************)
(* Text helpers.                                                           *)
(***************************************************************************)
Min(S) == CHOOSE x \in S : \A y \in S : x <= y
Max(S) == CHOOSE x \in S : \A y \in S : x >= y

\* str.startswith(prefix)
startswith(s, prefix) ==
    /\ Len(prefix) <= Len(s)
    /\ SubSeq(s, 1, Len(prefix)) = prefix

\* line.replace("\r", "")
StripCR(line) == SelectSeq(line, LAMBDA c : c # "\r")

\* sep.join(parts)
RECURSIVE join(_, _)
join(sep, parts) ==
    IF parts = <<>> THEN <<>>
    ELSE IF Len(parts) = 1 THEN parts[1]
    ELSE parts[1] \o sep \o join(sep, Tail(parts))

(***************************************************************************)
(* Python's re, for the part of the regular-expression language the        *)
(* session's patterns use: literal characters, backslash escapes (\d is    *)
(* the digit class, any other escaped character is that character),        *)
(* ".", "$", the postfix quantifiers "*" and "+", and top-level "|".       *)
(***************************************************************************)
\* the characters re.escape protects
ReSpecial == {".", "*", "+", "|", "$", "\\", " ", "(", ")", "[", "]", "?", "^"}
Digits == {"0", "1", "2", "3", "4", "5", "6", "7", "8", "9"}

RECURSIVE re_escape(_)
re_escape(s) ==
    IF s = <<>> THEN <<>>
    ELSE (IF Head(s) \in ReSpecial THEN <<"\\", Head(s)>> ELSE <<Head(s)>>)
         \o re_escape(Tail(s))

ReItem(atom, ch) == [atom |-> atom, ch |-> ch, min |-> 1, many |-> FALSE]

\* the alternatives of a pattern, each a sequence of quantified atoms
RECURSIVE ReParse(_, _, _, _)
ReParse(p, i, cur, alts) ==
    IF i > Len(p) THEN Append(alts, cur)
    ELSE LET c == p[i] IN
         IF c = "\\"
         THEN ReParse(p, i + 2,
                      Append(cur, ReItem(IF p[i + 1] = "d" THEN "digit" ELSE "lit",
                                         p[i + 1])),
                      alts)
         ELSE IF c = "|" THEN ReParse(p, i + 1, <<>>, Append(alts, cur))
         ELSE IF c \in {"*", "+"}
         THEN ReParse(p, i + 1,
                      [cur EXCEPT ![Len(cur)].min = IF c = "*" THEN 0 ELSE 1,
                                  ![Len(cur)].many = TRUE],
                      alts)
         ELSE IF c = "." THEN ReParse(p, i + 1, Append(cur, ReItem("any", c)), alts)
         ELSE IF c = "$" THEN ReParse(p, i + 1, Append(cur, ReItem("eol", c)), alts)
         ELSE ReParse(p, i + 1, Append(cur, ReItem("lit", c)), alts)

ReAccepts(item, c) ==
    CASE item.atom = "lit" -> c = item.ch
      [] item.atom = "digit" -> c \in Digits
      [] item.atom = "any" -> c # "\n"
      [] OTHER -> FALSE

\* how many characters from position i on the atom accepts in a row
RECURSIVE ReRun(_, _, _)
ReRun(item, s, i) ==
    IF i <= Len(s) /\ ReAccepts(item, s[i]) THEN 1 + ReRun(item, s, i + 1) ELSE 0

\* the position after the match of items[k..] at position i (greedy, with
\* backtracking), or 0 when there is none
RECURSIVE ReMatchHere(_, _, _, _)
ReMatchHere(items, k, s, i) ==
    IF k > Len(items) THEN i
    ELSE LET item == items[k] IN
         IF item.atom = "eol"
         THEN IF i = Len(s) + 1 THEN ReMatchHere(items, k + 1, s, i) ELSE 0
         ELSE LET run == ReRun(item, s, i)
                  hi == IF item.many THEN run ELSE IF run >= 1 THEN 1 ELSE 0
                  good == {n \in item.min .. hi :
                              ReMatchHere(items, k + 1, s, i + n) # 0}
              IN IF good = {} THEN 0
                 ELSE ReMatchHere(items, k + 1, s, i + Max(good))

NoMatch == [matched |-> FALSE, group |-> <<>>]

\* re.search(pattern, string): the leftmost match; group is match.group(0)
re_search(pattern, string) ==
    LET alts == ReParse(pattern, 1, <<>>, <<>>)
        hits == {i \in 1 .. Len(string) + 1 :
                    \E a \in 1 .. Len(alts) : ReMatchHere(alts[a], 1, string, i) # 0}
    IN IF hits = {} THEN NoMatch
       ELSE LET i == Min(hits)
                a == Min({b \in 1 .. Len(alts) :
                             ReMatchHere(alts[b], 1, string, i) # 0})
            IN [matched |-> TRUE,
                group |-> SubSeq(string, i, ReMatchHere(alts[a], 1, string, i) - 1)]


(***************************************************************************)
(* Pattern values a caller passes (Union[Pattern, TIMEOUT, str], or any    *)
(* other object), and the arguments built from them: a list, or one        *)
(* pattern passed bare.                                                    *)
(***************************************************************************)
StrPat(text) == [kind |-> "str", text |-> text]
RePat(text) == [kind |-> "re", text |-> text]
TIMEOUT == [kind |-> "TIMEOUT", text |-> <<>>]
IntPat == [kind |-> "int", text |-> <<>>]
ListArg(items) == [list |-> TRUE, items |-> items]
BareArg(item) == [list |-> FALSE, items |-> <<item>>]

\* an absent optional value (None), and a present one
None == <<>>
Some(v) == <<v>>

\* Python's truth value of an argument: a non-empty list, a non-empty
\* string, any other object
Truthy(arg) ==
    IF arg.list THEN arg.items # <<>>
    ELSE IF arg.items[1].kind = "str" THEN arg.items[1].text # <<>>
    ELSE TRUE

(***************************************************************************)
(* Threads.                                                                *)
(***************************************************************************)
FgThreads == {"fg1", "fg2"}
ReaderThread == "reader"
NoThread == "nobody"

VARIABLES
    lock,          \* self._lock: [owner, count] of the RLock
    running,       \* self._running
    streaming,     \* self._streaming
    matched,       \* self._matched
    output_lines,  \* self._output_lines
    prompt_regex,  \* self._prompt_regex
    conn,          \* self.connection: "open", "lost" (end of stream seen), "closed"
    buffer,        \* text the connection has received after the last newline
    reader,        \* where the background thread is in run()
    closer,        \* where a close_console call is
    fg,            \* per foreground thread: where its call is, and the call's locals
    callers,       \* the foreground threads that use the session
    device,        \* what the device sends, and the pulls returned so far
    call,          \* a call of a function of the package: arguments and outcome
    adb            \* an Adb object: its fields, and where a call on it is

vars == <<lock, running, streaming, matched, output_lines, prompt_regex, conn,
          buffer, reader, closer, fg, callers, device, call, adb>>

\* the objects beside the serial session
others == <<call, adb>>

(***************************************************************************)
(* threading.RLock                                                         *)
(***************************************************************************)
LockFree == [owner |-> NoThread, count |-> 0]

\* a lock that excludes nobody: acquire() returns for every thread
CanAcquireAlways(th) == TRUE

\* acquire() returns for thread th: the lock is free, or th owns it already
CanAcquire(th) == lock.owner = NoThread \/ lock.owner = th

Acquired(th) ==
    [owner |-> th, count |-> IF lock.owner = th THEN lock.count + 1 ELSE 1]

\* release() by its owner; by any other thread it raises RuntimeError
Released(th) ==
    IF lock.count > 1 THEN [lock EXCEPT !.count = @ - 1] ELSE LockFree

(***************************************************************************)
(* _get_line.  What a pull of the stream can produce: a complete line (the *)
(* newline arrived: the text before it), the text received so far when no  *)
(* newline arrived within the poll interval (TIMEOUT: the text stays in    *)
(* the connection's buffer and is handed back again by the next pull), the *)
(* end of the stream (EOF, raised as SerialConnectionError), or the error  *)
(* of reading a closed descriptor.                                         *)
(***************************************************************************)
LinePull(text) == [kind |-> "line", text |-> text]
TimeoutPull(text) == [kind |-> "timeout", text |-> text]
EofPull == [kind |-> "eof", text |-> <<>>]
ClosedPull == [kind |-> "closed", text |-> <<>>]

Pulls(lines, partials) ==
    {LinePull(l) : l \in lines} \cup {TimeoutPull(p) : p \in partials}
        \cup {EofPull, ClosedPull}

\* The device.  Either it may send any text (any), or it sends the lines of
\* script in this order, each followed by a newline; sent counts the lines
\* whose newline a pull has consumed, and pulls records what the pulls of
\* such a device returned: the text, and the number (in the device's order)
\* of the line the text belongs to.
AnyDevice == [any |-> TRUE, script |-> <<>>, sent |-> 0, pulls |-> <<>>]
Scripted(script) == [any |-> FALSE, script |-> script, sent |-> 0, pulls |-> <<>>]

\* the line the device is sending: the text before the next newline
Sending ==
    IF device.sent < Len(device.script) THEN device.script[device.sent + 1] ELSE <<>>

\* the device can have sent text by now (with its newline, for a line)
CanSend(r) ==
    \/ device.any
    \/ r.kind = "line" /\ device.sent < Len(device.script) /\ r.text = Sending
    \/ r.kind = "timeout" /\ startswith(Sending, r.text)

\* the stream can produce r now
CanPull(r) ==
    CASE r.kind = "line" -> conn = "open" /\ startswith(r.text, buffer) /\ CanSend(r)
      [] r.kind = "timeout" -> conn = "open" /\ startswith(r.text, buffer) /\ CanSend(r)
      [] r.kind = "eof" -> conn \in {"open", "lost"}
      [] OTHER -> conn = "closed"

\* a pull that leaves the line it returns in the stream
ConsumedKept(r) == device.sent

\* expect("\n") consumes the text up to the newline and the newline; at a
\* TIMEOUT nothing is consumed
Consumed(r) == IF r.kind = "line" THEN device.sent + 1 ELSE device.sent

\* the device after the pull
Pulled(r) ==
    IF device.any \/ r.kind \notin {"line", "timeout"} THEN device
    ELSE [device EXCEPT !.sent = Consumed(r),
                        !.pulls = Append(@, [kind |-> r.kind, text |-> r.text,
                                             at |-> device.sent + 1])]

PullRaises(r) == r.kind \in {"eof", "closed"}

PullError(r) == IF r.kind = "eof" THEN "SerialConnectionError" ELSE "OSError"

\* the effect of the pull on the connection
_get_line(r) ==
    /\ CanPull(r)
    /\ conn' = IF r.kind = "eof" THEN "lost" ELSE conn
    /\ buffer' = CASE r.kind = "line" -> <<>>
                   [] r.kind = "timeout" -> r.text
                   [] OTHER -> buffer
    /\ device' = Pulled(r)

(***************************************************************************)
(* The background reader: run().                                           *)
(***************************************************************************)
\* Thread.start()
start ==
    /\ reader = "unstarted"
    /\ reader' = "outer"
    /\ UNCHANGED <<others, device, lock, running, streaming, matched, output_lines, prompt_regex,
                   conn, buffer, closer, fg, callers>>

\* line 101: while self._running.is_set()
ReaderOuter ==
    /\ reader = "outer"
    /\ reader' = IF running THEN "acquire" ELSE "finally"
    /\ UNCHANGED <<others, device, lock, running, streaming, matched, output_lines, prompt_regex,
                   conn, buffer, closer, fg, callers>>

\* the reader entering its drain loop whoever holds the lock
ReaderAcquireUnlocked ==
    /\ reader = "acquire"
    /\ lock' = Acquired(ReaderThread)
    /\ reader' = "inner"
    /\ UNCHANGED <<others, device, running, streaming, matched, output_lines, prompt_regex,
                   conn, buffer, closer, fg, callers>>

\* line 102: self._lock.acquire()
ReaderAcquire ==
    /\ reader = "acquire"
    /\ CanAcquire(ReaderThread)
    /\ lock' = Acquired(ReaderThread)
    /\ reader' = "inner"
    /\ UNCHANGED <<others, device, running, streaming, matched, output_lines, prompt_regex,
                   conn, buffer, closer, fg, callers>>

\* a drain loop that tests the streaming flag only
ReaderInnerIgnoresRunning ==
    /\ reader = "inner"
    /\ IF streaming
       THEN /\ reader' = "pull"
            /\ lock' = lock
       ELSE /\ reader' = "wait"
            /\ lock' = Released(ReaderThread)
    /\ UNCHANGED <<others, device, running, streaming, matched, output_lines, prompt_regex,
                   conn, buffer, closer, fg, callers>>

\* a drain loop that tests the running flag only
ReaderInnerIgnoresStreaming ==
    /\ reader = "inner"
    /\ IF running
       THEN /\ reader' = "pull"
            /\ lock' = lock
       ELSE /\ reader' = "wait"
            /\ lock' = Released(ReaderThread)
    /\ UNCHANGED <<others, device, running, streaming, matched, output_lines, prompt_regex,
                   conn, buffer, closer, fg, callers>>

\* lines 103-105: the drain loop's test; when it fails the lock is released
ReaderInner ==
    /\ reader = "inner"
    /\ IF streaming /\ running
       THEN /\ reader' = "pull"
            /\ lock' = lock
       ELSE /\ reader' = "wait"
            /\ lock' = Released(ReaderThread)
    /\ UNCHANGED <<others, device, running, streaming, matched, output_lines, prompt_regex,
                   conn, buffer, closer, fg, callers>>

\* line 104: the pull returns (the line is logged and dropped) or raises
\* (line 109: any exception ends the loop)
ReaderLine(r) ==
    /\ reader = "pull"
    /\ _get_line(r)
    /\ reader' = IF PullRaises(r) THEN "finally" ELSE "inner"
    /\ UNCHANGED <<others, lock, running, streaming, matched, output_lines, prompt_regex,
                   closer, fg, callers>>

\* lines 106-108: while running, wait for streaming
ReaderWait ==
    /\ reader = "wait"
    /\ ~running \/ streaming
    /\ reader' = "outer"
    /\ UNCHANGED <<others, device, lock, running, streaming, matched, output_lines, prompt_regex,
                   conn, buffer, closer, fg, callers>>

\* an exit of the reader that leaves the lock as it is
ReaderFinallyKeepsLock ==
    /\ reader = "finally"
    /\ streaming' = FALSE
    /\ running' = FALSE
    /\ reader' = "done"
    /\ UNCHANGED <<others, device, lock, matched, output_lines, prompt_regex, conn, buffer, closer,
                   fg, callers>>

\* a finally block that releases the lock and leaves both flags as they are
ReaderFinallyKeepsFlags ==
    /\ reader = "finally"
    /\ lock' = IF lock.owner = ReaderThread THEN Released(ReaderThread) ELSE lock
    /\ reader' = "done"
    /\ UNCHANGED <<others, device, running, streaming, matched, output_lines, prompt_regex,
                   conn, buffer, closer, fg, callers>>

\* lines 111-121: release the lock if this thread holds it (RuntimeError
\* otherwise, caught), clear both flags
ReaderFinally ==
    /\ reader = "finally"
    /\ lock' = IF lock.owner = ReaderThread THEN Released(ReaderThread) ELSE lock
    /\ streaming' = FALSE
    /\ running' = FALSE
    /\ reader' = "done"
    /\ UNCHANGED <<others, device, matched, output_lines, prompt_regex, conn, buffer, closer, fg,
                   callers>>

(***************************************************************************)
(* close_console                                                           *)
(***************************************************************************)
\* line 124: self._running.clear()
CloseBegin ==
    /\ closer = "idle"
    /\ running' = FALSE
    /\ closer' = "join"
    /\ UNCHANGED <<others, device, lock, streaming, matched, output_lines, prompt_regex, conn,
                   buffer, reader, fg, callers>>

\* a thread that is never seen alive: close_console does not join it
is_aliveNever == FALSE

\* is_alive(): the thread was started and has not ended
is_alive == reader \notin {"unstarted", "done"}

\* a connection that is always seen alive
isaliveAlways == TRUE

\* line 273: self.connection.isalive(), the descriptor is still valid
isalive == conn \in {"open", "lost"}

\* lines 275, 277: close() of the handle; "closed twice" when it was closed
CloseHandle(c) == IF c \in {"open", "lost"} THEN "closed" ELSE "closed twice"

\* _close_connection: the handle is closed when the connection is alive
_close_connection == IF isalive THEN CloseHandle(conn) ELSE conn

\* lines 125-127: join the reader if it is alive, then close the connection
CloseJoin ==
    /\ closer = "join"
    /\ ~is_alive
    /\ conn' = _close_connection
    /\ closer' = "idle"
    /\ UNCHANGED <<others, device, lock, running, streaming, matched, output_lines, prompt_regex,
                   buffer, reader, fg, callers>>

(***************************************************************************)
(* Prompts.                                                                *)
(***************************************************************************)
\* a prompt string taken for a regular expression as it is
PromptPartVerbatim(x) == x

\* one prompt string: verbatim when it starts with a backslash, else escaped
PromptPart(x) == IF startswith(x, <<"\\">>) THEN x ELSE re_escape(x)

RECURSIVE PromptParts(_)
PromptParts(xs) ==
    IF xs = <<>> THEN <<>> ELSE <<PromptPart(Head(xs))>> \o PromptParts(Tail(xs))

\* a prompt specification: None, one string, or a list of strings
PromptNone == [kind |-> "none", items |-> <<>>]
PromptStr(x) == [kind |-> "str", items |-> <<x>>]
PromptList(xs) == [kind |-> "list", items |-> xs]

\* _get_prompt_regex(prompt)
_get_prompt_regex(prompt) ==
    IF prompt.kind = "none" THEN <<>>
    ELSE IF prompt.kind = "str" THEN PromptPart(prompt.items[1])
    ELSE join(<<"|">>, PromptParts(prompt.items))

\* set_prompt(prompt)
set_prompt(prompt) ==
    /\ prompt_regex' = _get_prompt_regex(prompt)
    /\ prompt_regex' # prompt_regex
    /\ UNCHANGED <<others, device, lock, running, streaming, matched, output_lines, conn, buffer,
                   reader, closer, fg, callers>>

\* get_matched()
get_matched == matched

\* a get_output that leaves out the last captured line only when the
\* session's prompt is found in it
get_outputWithoutPromptLine ==
    IF /\ output_lines # <<>>
       /\ prompt_regex # <<>>
       /\ re_search(prompt_regex, output_lines[Len(output_lines)]).matched
    THEN join(<<"\n">>, SubSeq(output_lines, 1, Len(output_lines) - 1))
    ELSE join(<<"\n">>, output_lines)

\* get_output(), lines 92-96
get_output ==
    IF prompt_regex # <<>>
    THEN join(<<"\n">>, SubSeq(output_lines, 1, Len(output_lines) - 1))
    ELSE join(<<"\n">>, output_lines)

(***************************************************************************)
(* The foreground operations.  fg[t] holds where thread t is in its call   *)
(* and the call's locals, named as in the source; retypes_arg, sent,       *)
(* echo_at, cycle and via record what happened in the call: the            *)
(* max_retypes passed, the texts written, the write after which a pulled   *)
(* line first held the command text (0: none yet), the raw lines pulled in *)
(* the expect cycle, and the branch by which _expect ended.                *)
(***************************************************************************)
FgIdle ==
    [pc |-> "idle", op |-> "none",
     command |-> <<>>, max_retypes |-> 0, check_echo |-> FALSE,
     send_linebreak |-> FALSE, pulls |-> 0,
     expected |-> <<>>, not_expected |-> <<>>, timeout |-> 0,
     wait_for_prompt |-> FALSE, expected_prompt_regex |-> <<>>,
     prompt_found |-> FALSE, expected_found |-> None,
     found |-> NOT_EXPECTING, exc |-> "none",
     retypes_arg |-> 0, sent |-> <<>>, echo_at |-> 0, cycle |-> <<>>,
     via |-> "none"]

\* an exception that leaves the call at once, past the finally block
RaiseSkipsFinally(f, exc) == [f EXCEPT !.pc = "idle", !.exc = exc]

\* an exception leaves the try block of send_command / expect for its
\* finally block (lines 147-149, 194-196)
Raise(f, exc) == [f EXCEPT !.pc = "fin_set", !.exc = exc]

\* the try block is left by a normal return of value v
Return(f, v) == [f EXCEPT !.pc = "fin_set", !.found = v]

\* the text contains the other text
Contains(s, sub) ==
    \E i \in 1 .. Len(s) + 1 :
        /\ i + Len(sub) - 1 <= Len(s)
        /\ SubSeq(s, i, i + Len(sub) - 1) = sub

\* send_command, lines 177-182: the call begins and clears streaming
send_command(t, command, max_retypes, check_echo, send_linebreak) ==
    /\ t \in callers
    /\ fg[t].pc = "idle"
    /\ streaming' = FALSE
    /\ fg' = [fg EXCEPT ![t] =
                [FgIdle EXCEPT !.pc = "acquire", !.op = "send_command",
                               !.command = command, !.max_retypes = max_retypes,
                               !.retypes_arg = max_retypes,
                               !.check_echo = check_echo,
                               !.send_linebreak = send_linebreak]]
    /\ UNCHANGED <<others, device, lock, running, matched, output_lines, prompt_regex, conn,
                   buffer, reader, closer, callers>>

\* expect, lines 136-138
expect(t) ==
    /\ t \in callers
    /\ fg[t].pc = "idle"
    /\ streaming' = FALSE
    /\ fg' = [fg EXCEPT ![t] = [FgIdle EXCEPT !.pc = "acquire", !.op = "expect"]]
    /\ UNCHANGED <<others, device, lock, running, matched, output_lines, prompt_regex, conn,
                   buffer, reader, closer, callers>>

\* lines 139, 183: self._lock.acquire()
FgAcquire(t) ==
    /\ fg[t].pc = "acquire"
    /\ CanAcquire(t)
    /\ lock' = Acquired(t)
    /\ fg' = [fg EXCEPT ![t].pc = IF fg[t].op = "send_command" THEN "send"
                                  ELSE "sent"]
    /\ UNCHANGED <<others, device, running, streaming, matched, output_lines, prompt_regex, conn,
                   buffer, reader, closer, callers>>

\* connection.sendline(command) / connection.send(command): the text written
Written(f) == IF f.send_linebreak THEN f.command \o <<"\n">> ELSE f.command

\* the write succeeds (ok) on an open connection and fails on a closed one;
\* after the end of the stream it may do either
CanWrite(ok) ==
    CASE conn = "open" -> ok
      [] conn = "closed" -> ~ok
      [] OTHER -> TRUE

\* a retype loop that runs once more: while max_retypes >= 0
RetypesLeftInclusive(f) == f.max_retypes >= 0

\* line 309: while max_retypes > 0
RetypesLeft(f) == f.max_retypes > 0

\* _send_command, lines 308-313 and 319-326: without the echo check one
\* write; with it the head of the retype loop, which writes the command
\* while retypes are left and raises when they are used up
_send_command(t, ok) ==
    LET f == fg[t] IN
    /\ f.pc = "send"
    /\ IF f.check_echo /\ ~RetypesLeft(f)
       THEN /\ ok
            /\ fg' = [fg EXCEPT ![t] = Raise(f, "EchoNotFound")]
       ELSE /\ CanWrite(ok)
            /\ fg' = [fg EXCEPT ![t] =
                        IF ~ok THEN Raise(f, "OSError")
                        ELSE [f EXCEPT !.sent = Append(@, Written(f)),
                                       !.pulls = 0,
                                       !.pc = IF f.check_echo THEN "echo_window"
                                              ELSE "sent"]]
    /\ UNCHANGED <<others, device, lock, running, streaming, matched, output_lines, prompt_regex,
                   conn, buffer, reader, closer, callers>>

\* line 315: the two seconds of the echo window have not passed: pull a line
EchoWindowOpen(t) ==
    /\ fg[t].pc = "echo_window"
    /\ fg[t].pulls < MaxEchoPulls
    /\ fg' = [fg EXCEPT ![t].pc = "echo_pull"]
    /\ UNCHANGED <<others, device, lock, running, streaming, matched, output_lines, prompt_regex,
                   conn, buffer, reader, closer, callers>>

\* lines 315, 318: the window has passed: one retype less
EchoWindowOver(t) ==
    /\ fg[t].pc = "echo_window"
    /\ fg' = [fg EXCEPT ![t].pc = "send", ![t].max_retypes = @ - 1]
    /\ UNCHANGED <<others, device, lock, running, streaming, matched, output_lines, prompt_regex,
                   conn, buffer, reader, closer, callers>>

\* line 316: the command's echo is searched in the line
EchoFound(command, line) == re_search(re_escape(command), line).matched

\* lines 316-317: the pull returns; _send_command returns when the line
\* holds the echo
EchoLine(t, r) ==
    LET f == fg[t] IN
    /\ f.pc = "echo_pull"
    /\ _get_line(r)
    /\ fg' = [fg EXCEPT ![t] =
                IF PullRaises(r) THEN Raise(f, PullError(r))
                ELSE [f EXCEPT
                        !.pulls = IF EchoFound(f.command, r.text) THEN 0 ELSE @ + 1,
                        !.echo_at = IF @ = 0 /\ Contains(r.text, f.command)
                                    THEN Len(f.sent) ELSE @,
                        !.pc = IF EchoFound(f.command, r.text) THEN "sent"
                               ELSE "echo_window"]]
    /\ UNCHANGED <<others, lock, running, streaming, matched, output_lines, prompt_regex,
                   reader, closer, callers>>

(***************************************************************************)
(* _expect                                                                 *)
(***************************************************************************)
\* _compile_pattern_list accepts strings, compiled patterns and TIMEOUT
Compilable(items) ==
    \A i \in 1 .. Len(items) : items[i].kind \in {"str", "re", "TIMEOUT"}

\* _compile_pattern_list: a string is compiled as a regular expression
_compile_pattern_list(items) ==
    [i \in 1 .. Len(items) |->
        IF items[i].kind = "str" THEN RePat(items[i].text) ELSE items[i]]

\* lines 359-368: the per-call prompt, else the session's (self._prompt_regex
\* is a string from construction on, never None: the last branch of the
\* source is never taken)
ExpectedPromptRegex(prompt) ==
    IF prompt.kind # "none" THEN _get_prompt_regex(prompt) ELSE prompt_regex

\* a cycle that is never told what to wait for
NothingToExpectNever(expected, not_expected, wait_for_prompt) == FALSE

\* line 355: if not (expected or not_expected or wait_for_prompt)
NothingToExpect(expected, not_expected, wait_for_prompt) ==
    ~(expected # <<>> \/ not_expected # <<>> \/ wait_for_prompt)

\* a send_command that runs _expect whatever it was asked for
NothingAskedNever(expected_in_output, not_expected_in_output, wait_for_prompt) == FALSE

\* line 186, negated: if expected_in_output or not_expected or wait_for_prompt
NothingAsked(expected_in_output, not_expected_in_output, wait_for_prompt) ==
    ~(Truthy(expected_in_output) \/ Truthy(not_expected_in_output) \/ wait_for_prompt)

\* lines 186-193 and 343-374: after the send step send_command runs _expect
\* when a pattern or the prompt is asked for; expect runs it always, with
\* wait_for_prompt False and no prompt.  _expect compiles the patterns,
\* rejects a call with nothing to wait for, resolves the prompt and resets
\* the cycle's state; then it pulls the first line.
BeginExpect(t, expected_in_output, not_expected_in_output, timeout, wait_for_prompt, prompt) ==
    LET f == fg[t]
        expected == _compile_pattern_list(expected_in_output.items)
        not_expected == _compile_pattern_list(not_expected_in_output.items)
        skipped == /\ f.op = "send_command"
                   /\ NothingAsked(expected_in_output, not_expected_in_output,
                                   wait_for_prompt)
        bad == ~(Compilable(expected_in_output.items)
                 /\ Compilable(not_expected_in_output.items))
        nothing == NothingToExpect(expected, not_expected, wait_for_prompt)
        enters == ~skipped /\ ~bad /\ ~nothing
    IN
    /\ f.pc = "sent"
    /\ f.op = "expect" => (~wait_for_prompt /\ prompt.kind = "none")
    /\ fg' = [fg EXCEPT ![t] =
                IF skipped THEN Return([f EXCEPT !.via = "skipped"], f.found)
                ELSE IF bad THEN Raise(f, "PatternType")
                ELSE IF nothing THEN Raise(f, "NothingToExpect")
                ELSE [f EXCEPT !.pc = "expect_pull",
                               !.expected = expected,
                               !.not_expected = not_expected,
                               !.timeout = timeout,
                               !.wait_for_prompt = wait_for_prompt,
                               !.expected_prompt_regex = ExpectedPromptRegex(prompt),
                               !.prompt_found = ~wait_for_prompt,
                               !.expected_found = None]]
    /\ matched' = IF enters THEN <<>> ELSE matched
    /\ output_lines' = IF enters THEN <<>> ELSE output_lines
    /\ UNCHANGED <<others, device, lock, running, streaming, prompt_regex, conn, buffer, reader,
                   closer, callers>>

\* the not-expected test with re.match in place of re.search: the pattern
\* is looked for at the start of the line only
UnexpectedAtStart(not_expected, line) ==
    \E i \in 1 .. Len(not_expected) :
        /\ not_expected[i] # TIMEOUT
        /\ LET alts == ReParse(not_expected[i].text, 1, <<>>, <<>>)
           IN \E a \in 1 .. Len(alts) : ReMatchHere(alts[a], 1, line, 1) # 0

\* lines 380-383: some not-expected pattern other than TIMEOUT is found
Unexpected(not_expected, line) ==
    \E i \in 1 .. Len(not_expected) :
        /\ not_expected[i] # TIMEOUT
        /\ re_search(not_expected[i].text, line).matched

\* lines 384-389: the scan of the expected patterns from index idx on; st is
\* the pair of expected_found and self._matched
RECURSIVE ExpectedScan(_, _, _, _)
ExpectedScan(expected, idx, line, st) ==
    IF idx > Len(expected) THEN st
    ELSE LET hit == IF expected[idx] = TIMEOUT THEN NoMatch
                    ELSE re_search(expected[idx].text, line)
         IN ExpectedScan(expected, idx + 1, line,
                         IF hit.matched /\ st.matched = <<>>
                         THEN [expected_found |-> Some(idx - 1),
                               matched |-> hit.group]
                         ELSE st)

\* a success decision that takes the prompt or a pattern alone
DecidedEither(f, prompt_found, expected_found) ==
    \/ prompt_found /\ f.wait_for_prompt
    \/ expected_found # None
    \/ prompt_found /\ f.expected = <<>> /\ f.not_expected = <<>>

\* a success decision that counts the expected patterns only
DecidedWithoutNotExpected(f, prompt_found, expected_found) ==
    /\ prompt_found
    /\ ~(expected_found = None /\ f.expected # <<>>)

\* lines 390-392: the success decision
Decided(f, prompt_found, expected_found) ==
    /\ prompt_found
    /\ ~(expected_found = None /\ (f.expected # <<>> \/ f.not_expected # <<>>))

\* a decision that returns NOT_EXPECTING when no pattern is indexed
DecisionValueNotExpecting(expected_found) ==
    IF expected_found # None THEN expected_found[1] ELSE NOT_EXPECTING

\* lines 399-403: the value the success decision returns
DecisionValue(expected_found) ==
    IF expected_found # None THEN expected_found[1] ELSE PROMPT_ONLY

\* a deadline that also counts for timeout = 0
TimeOverFromZero(timeout, over) == timeout >= 0 /\ over

\* line 404: timeout > 0 and now > end_time (over: the deadline has passed)
TimeOver(timeout, over) == timeout > 0 /\ over

\* expected.index(TIMEOUT)
IndexOfTimeout(expected) ==
    Min({i \in 1 .. Len(expected) : expected[i] = TIMEOUT}) - 1

\* the end of the time without the branch for the TIMEOUT sentinel
AtTimeoutNoSentinel(f, prompt_found) ==
    IF f.wait_for_prompt /\ ~prompt_found THEN Raise(f, "PromptNotFound")
    ELSE IF f.expected = <<>> THEN Return(f, NOT_EXPECTING)
    ELSE Raise(f, "ExpectedNotFound")

\* the end of the time with the test of the expected patterns put first
AtTimeoutPatternsFirst(f, prompt_found) ==
    IF f.expected = <<>> THEN Return(f, NOT_EXPECTING)
    ELSE IF \E i \in 1 .. Len(f.expected) : f.expected[i] = TIMEOUT
    THEN Return(f, IndexOfTimeout(f.expected))
    ELSE IF f.wait_for_prompt /\ ~prompt_found THEN Raise(f, "PromptNotFound")
    ELSE Raise(f, "ExpectedNotFound")

\* lines 405-416: what the cycle ends with once the time is over
AtTimeout(f, prompt_found) ==
    IF f.wait_for_prompt /\ ~prompt_found THEN Raise(f, "PromptNotFound")
    ELSE IF f.expected = <<>> THEN Return(f, NOT_EXPECTING)
    ELSE IF \E i \in 1 .. Len(f.expected) : f.expected[i] = TIMEOUT
    THEN Return(f, IndexOfTimeout(f.expected))
    ELSE Raise(f, "ExpectedNotFound")

\* a turn of the loop that tests the time before the success decision
ExpectLineDeadlineFirst(t, r, over) ==
    LET f == fg[t]
        line == r.text
        prompt_found ==
            \/ f.prompt_found
            \/ f.wait_for_prompt /\ re_search(f.expected_prompt_regex, line).matched
        scan == ExpectedScan(f.expected, 1, line,
                             [expected_found |-> f.expected_found,
                              matched |-> matched])
        g == [f EXCEPT !.prompt_found = prompt_found,
                       !.cycle = Append(@, line)]
        h == [g EXCEPT !.expected_found = scan.expected_found]
    IN
    /\ f.pc = "expect_pull"
    /\ Len(output_lines) < MaxLines
    /\ _get_line(r)
    /\ IF PullRaises(r)
       THEN /\ fg' = [fg EXCEPT ![t] = Raise(f, PullError(r))]
            /\ UNCHANGED <<matched, output_lines>>
       ELSE /\ output_lines' = Append(output_lines, StripCR(line))
            /\ IF Unexpected(f.not_expected, line)
               THEN /\ fg' = [fg EXCEPT ![t] = Raise(g, "Unexpected")]
                    /\ matched' = matched
               ELSE /\ matched' = scan.matched
                    /\ fg' = [fg EXCEPT ![t] =
                                IF TimeOver(f.timeout, over)
                                THEN AtTimeout([h EXCEPT !.via = "timeout"],
                                               prompt_found)
                                ELSE IF Decided(f, prompt_found, scan.expected_found)
                                THEN Return([h EXCEPT !.via = "decision"],
                                            DecisionValue(scan.expected_found))
                                ELSE h]
    /\ UNCHANGED <<others, lock, running, streaming, prompt_regex, reader, closer, callers>>

\* lines 376-416, one turn of the loop: the pull returns line r.text, which
\* is captured, tested for the prompt, scanned for the not-expected and the
\* expected patterns; then the decision, then the time test (over: the
\* deadline has passed), then the next pull
ExpectLine(t, r, over) ==
    LET f == fg[t]
        line == r.text
        prompt_found ==
            \/ f.prompt_found
            \/ f.wait_for_prompt /\ re_search(f.expected_prompt_regex, line).matched
        scan == ExpectedScan(f.expected, 1, line,
                             [expected_found |-> f.expected_found,
                              matched |-> matched])
        g == [f EXCEPT !.prompt_found = prompt_found,
                       !.cycle = Append(@, line)]
        h == [g EXCEPT !.expected_found = scan.expected_found]
    IN
    /\ f.pc = "expect_pull"
    /\ Len(output_lines) < MaxLines
    /\ _get_line(r)
    /\ IF PullRaises(r)
       THEN /\ fg' = [fg EXCEPT ![t] = Raise(f, PullError(r))]
            /\ UNCHANGED <<matched, output_lines>>
       ELSE /\ output_lines' = Append(output_lines, StripCR(line))
            /\ IF Unexpected(f.not_expected, line)
               THEN /\ fg' = [fg EXCEPT ![t] = Raise(g, "Unexpected")]
                    /\ matched' = matched
               ELSE /\ matched' = scan.matched
                    /\ fg' = [fg EXCEPT ![t] =
                                IF Decided(f, prompt_found, scan.expected_found)
                                THEN Return([h EXCEPT !.via = "decision"],
                                            DecisionValue(scan.expected_found))
                                ELSE IF TimeOver(f.timeout, over)
                                THEN AtTimeout([h EXCEPT !.via = "timeout"],
                                               prompt_found)
                                ELSE h]
    /\ UNCHANGED <<others, lock, running, streaming, prompt_regex, reader, closer, callers>>

\* a finally block that leaves the streaming flag as it is
FinSetSkipped(t) ==
    /\ fg[t].pc = "fin_set"
    /\ fg' = [fg EXCEPT ![t].pc = "fin_release"]
    /\ UNCHANGED <<others, device, lock, running, streaming, matched, output_lines, prompt_regex,
                   conn, buffer, reader, closer, callers>>

\* lines 148, 195: self._streaming.set()
FinSet(t) ==
    /\ fg[t].pc = "fin_set"
    /\ streaming' = TRUE
    /\ fg' = [fg EXCEPT ![t].pc = "fin_release"]
    /\ UNCHANGED <<others, device, lock, running, matched, output_lines, prompt_regex, conn,
                   buffer, reader, closer, callers>>

\* lines 149-150, 196-197: self._lock.release(), and the call returns found
\* or lets the exception through
FinRelease(t) ==
    /\ fg[t].pc = "fin_release"
    /\ lock' = Released(t)
    /\ fg' = [fg EXCEPT ![t] = FgIdle]
    /\ UNCHANGED <<others, device, running, streaming, matched, output_lines, prompt_regex, conn,
                   buffer, reader, closer, callers>>

(***************************************************************************)
(* The inputs: commands, patterns, prompts, and what the device sends.     *)
(***************************************************************************)
CmdLs == <<"l", "s">>
CmdDot == <<"l", ".">>

PatA == StrPat(<<"a">>)
PatB == StrPat(<<"b">>)
\* matches at the start of every line, the empty text unless an x is there
PatXStar == RePat(<<"x", "*">>)

PromptDollar == PromptStr(<<"$">>)

LineEcho == <<"l", "s", "\r">>
LineA == <<"a">>
LineB == <<"b">>
LineABPrompt == <<"a", "b", "$">>
LinePrompt == <<"$">>

\* the device's lines, and the texts at which it pauses without a newline
\* (between lines, and after a prompt)
DeviceLines == {LineEcho, LineA, LineB, LineABPrompt, LinePrompt}
DevicePauses == {<<>>, LinePrompt}

SessionPrompts == {PromptNone, PromptDollar}

\* no call of a function is under way
NoCall == [fn |-> "none"]

\* no wait_for_state call is under way
NoWait == [pc |-> "idle", expected_state |-> "none", polls |-> <<>>]

\* no Adb object exists
NoAdb ==
    [made |-> FALSE, adb_device_id |-> None, ignore_ids |-> {}, raised |-> "none",
     value |-> "none", wait |-> NoWait]

\* the session after construction, used by the threads in callers
SessionInit(prompts, callerSets) ==
    /\ lock = LockFree
    /\ running = TRUE
    /\ streaming = TRUE
    /\ matched = <<>>
    /\ output_lines = <<>>
    /\ \E prompt \in prompts : prompt_regex = _get_prompt_regex(prompt)
    /\ conn = "open"
    /\ buffer = <<>>
    /\ reader = "unstarted"
    /\ closer = "idle"
    /\ fg = [t \in FgThreads |-> FgIdle]
    /\ callers \in callerSets

\* the session alone, with a device that may send anything
InitOf(prompts, callerSets) ==
    /\ SessionInit(prompts, callerSets)
    /\ device = AnyDevice
    /\ call = NoCall
    /\ adb = NoAdb

\* the session's variables
session ==
    <<lock, running, streaming, matched, output_lines, prompt_regex, conn, buffer,
      reader, closer, fg, callers, device>>

(***************************************************************************)
(* Spec: the session with its reader thread, one or two foreground         *)
(* callers and close_console, for a small choice of arguments that takes   *)
(* every way out of a call.                                                *)
(***************************************************************************)
ExpectArgs(expected, not_expected, timeout, wait_for_prompt) ==
    [expected |-> ListArg(expected), not_expected |-> ListArg(not_expected),
     timeout |-> timeout, wait_for_prompt |-> wait_for_prompt]

SpecPulls == Pulls({LineEcho, LineA, LinePrompt}, {})
SpecExpectArgs ==
    {ExpectArgs(<<PatA>>, <<>>, 1, TRUE),
     ExpectArgs(<<>>, <<PatA>>, 1, FALSE),
     ExpectArgs(<<IntPat>>, <<>>, 0, FALSE),
     ExpectArgs(<<>>, <<>>, 0, FALSE)}

Init == InitOf({PromptDollar}, {{"fg1"}, {"fg1", "fg2"}})

Next ==
    \/ start
    \/ ReaderOuter
    \/ ReaderAcquire
    \/ ReaderInner
    \/ \E r \in SpecPulls : ReaderLine(r)
    \/ ReaderWait
    \/ ReaderFinally
    \/ CloseBegin
    \/ CloseJoin
    \/ \E t \in FgThreads : send_command(t, CmdLs, 1, TRUE, TRUE)
    \/ \E t \in FgThreads : expect(t)
    \/ \E t \in FgThreads, ok \in BOOLEAN : _send_command(t, ok)
    \/ \E t \in FgThreads : FgAcquire(t)
    \/ \E t \in FgThreads : EchoWindowOpen(t)
    \/ \E t \in FgThreads : EchoWindowOver(t)
    \/ \E t \in FgThreads, r \in SpecPulls : EchoLine(t, r)
    \/ \E t \in FgThreads, a \in SpecExpectArgs :
           BeginExpect(t, a.expected, a.not_expected, a.timeout, a.wait_for_prompt,
                       PromptNone)
    \/ \E t \in FgThreads, r \in SpecPulls, over \in BOOLEAN : ExpectLine(t, r, over)
    \/ \E t \in FgThreads : FinSet(t)
    \/ \E t \in FgThreads : FinRelease(t)

Spec == Init /\ [][Next]_vars

(***************************************************************************)
(* SpecSend: one caller and the send step of send_command, for every       *)
(* choice of its arguments; no pattern and no prompt is asked for.         *)
(***************************************************************************)
LineDotEcho == <<"l", ".", "\r">>
SendPulls == Pulls({LineEcho, LineDotEcho, LineA}, {<<>>, CmdLs})

InitSend == InitOf({PromptNone}, {{"fg1"}})

NextSend ==
    \/ \E command \in {CmdLs, CmdDot}, max_retypes \in -1 .. MaxRetypes,
          check_echo \in BOOLEAN, send_linebreak \in BOOLEAN :
           send_command("fg1", command, max_retypes, check_echo, send_linebreak)
    \/ FgAcquire("fg1")
    \/ \E ok \in BOOLEAN : _send_command("fg1", ok)
    \/ EchoWindowOpen("fg1")
    \/ EchoWindowOver("fg1")
    \/ \E r \in SendPulls : EchoLine("fg1", r)
    \/ BeginExpect("fg1", ListArg(<<>>), ListArg(<<>>), 0, FALSE, PromptNone)
    \/ FinSet("fg1")
    \/ FinRelease("fg1")

SpecSend == InitSend /\ [][NextSend]_vars

(***************************************************************************)
(* SpecExpect: one caller and the expect cycle, entered from expect and    *)
(* from send_command (without the echo check), for every choice of the     *)
(* cycle's arguments; the caller changes the prompt between its calls.     *)
(***************************************************************************)
ExpectPulls == Pulls(DeviceLines, DevicePauses)
ExpectedArgs ==
    {ListArg(<<>>), ListArg(<<PatA>>), ListArg(<<PatA, PatB>>),
     ListArg(<<PatXStar, PatA>>), ListArg(<<TIMEOUT>>), ListArg(<<PatA, TIMEOUT>>),
     BareArg(PatB), ListArg(<<IntPat>>)}
NotExpectedArgs == {ListArg(<<>>), ListArg(<<PatB>>)}

InitExpect == InitOf(SessionPrompts, {{"fg1"}})

NextExpect ==
    \/ send_command("fg1", CmdLs, MaxRetypes, FALSE, TRUE)
    \/ expect("fg1")
    \/ FgAcquire("fg1")
    \/ \E ok \in BOOLEAN : _send_command("fg1", ok)
    \/ \E e \in ExpectedArgs, n \in NotExpectedArgs, timeout \in {-1, 0, 1},
          wait_for_prompt \in BOOLEAN, prompt \in {PromptNone, PromptDollar} :
           BeginExpect("fg1", e, n, timeout, wait_for_prompt, prompt)
    \/ \E r \in ExpectPulls, over \in BOOLEAN : ExpectLine("fg1", r, over)
    \/ FinSet("fg1")
    \/ FinRelease("fg1")
    \/ \E prompt \in SessionPrompts : fg["fg1"].pc = "idle" /\ set_prompt(prompt)

SpecExpect == InitExpect /\ [][NextExpect]_vars

(***************************************************************************)
(* SpecClose: the reader, close_console and one caller of expect, with the *)
(* scheduling the threads have: a thread that can take its next step       *)
(* without waiting takes it, and a thread blocked in acquire(), in         *)
(* Event.wait() or in join() goes on once what it waits for stays          *)
(* available (weak fairness of each step of the reader and of              *)
(* close_console).  The caller may call again and again, or stop.          *)
(***************************************************************************)
InitClose == InitOf({PromptDollar}, {{"fg1"}})

NextClose ==
    \/ start
    \/ ReaderOuter
    \/ ReaderAcquire
    \/ ReaderInner
    \/ \E r \in SpecPulls : ReaderLine(r)
    \/ ReaderWait
    \/ ReaderFinally
    \/ CloseBegin
    \/ CloseJoin
    \/ expect("fg1")
    \/ FgAcquire("fg1")
    \/ \E a \in SpecExpectArgs :
           BeginExpect("fg1", a.expected, a.not_expected, a.timeout, a.wait_for_prompt,
                       PromptNone)
    \/ \E r \in SpecPulls, over \in BOOLEAN : ExpectLine("fg1", r, over)
    \/ FinSet("fg1")
    \/ FinRelease("fg1")

FairClose ==
    /\ WF_vars(ReaderOuter)
    /\ WF_vars(ReaderAcquire)
    /\ WF_vars(ReaderInner)
    /\ WF_vars(\E r \in SpecPulls : ReaderLine(r))
    /\ WF_vars(ReaderWait)
    /\ WF_vars(ReaderFinally)
    /\ WF_vars(CloseJoin)

SpecClose == InitClose /\ [][NextClose]_vars /\ FairClose

(***************************************************************************)
(* The properties.  A foreground call is in progress from the clear of     *)
(* the streaming flag at its entry up to the set in its finally block.     *)
(***************************************************************************)
InProgress(t) == fg[t].pc \notin {"idle", "fin_release"}

\* the thread's next step is a pull of a line or a write on the stream
Touching(t) == fg[t].pc \in {"send", "echo_pull", "expect_pull"}

\* C1: at most one thread is inside a line pull or a write on the stream:
\* the reader is in a pull only while it owns the session lock, and a
\* foreground thread pulls or writes only while it owns the lock, for one
\* and for two foreground callers.
C1_MutualExclusion ==
    /\ reader \in {"inner", "pull"} => lock.owner = ReaderThread
    /\ \A t \in FgThreads : Touching(t) => lock.owner = t
    /\ Cardinality({t \in FgThreads : Touching(t)})
         + (IF reader = "pull" THEN 1 ELSE 0) <= 1

\* the reader and a second caller wait for the lock while a caller pulls
C1_Witness ==
    /\ callers = FgThreads
    /\ fg["fg1"].pc = "expect_pull"
    /\ fg["fg2"].pc = "acquire"
    /\ reader = "acquire"
    /\ running

\* C2, as stated: the streaming flag is false exactly while some foreground
\* send_command or expect is in progress, for one or several callers and
\* also after the reader has stopped.
C2_StreamingIffInProgress ==
    streaming = FALSE <=> \E t \in FgThreads : InProgress(t)

\* C2, amended: while the reader has not stopped, the streaming flag is
\* false only while some foreground call is in progress; with one caller
\* the flag is false throughout every call in progress, also after the
\* reader has stopped.
C2_StreamingPaused ==
    /\ (~streaming /\ reader # "done") => \E t \in FgThreads : InProgress(t)
    /\ Cardinality(callers) = 1 =>
           \A t \in FgThreads : InProgress(t) => ~streaming

\* a call in progress has paused the running reader
C2_Witness ==
    /\ callers = {"fg1"}
    /\ reader = "wait"
    /\ running
    /\ fg["fg1"].pc = "expect_pull"
    /\ ~streaming

\* C3: a thread that is not in a call does not hold the session lock, and
\* once every call has run the set of its finally block the streaming flag
\* is set (until the reader stops, which clears it): on every return and
\* on every raise of send_command and expect.
C3_ExitReleases ==
    /\ \A t \in FgThreads : fg[t].pc = "idle" => lock.owner # t
    /\ \A t \in FgThreads : fg[t].pc = "fin_release" => lock.owner = t
    /\ ((\A t \in FgThreads : ~InProgress(t)) /\ reader # "done") => streaming

\* a call that raised the unexpected-pattern error is past the set of the
\* flag, the other caller is still busy
C3_Witness ==
    /\ fg["fg1"].pc = "fin_release"
    /\ fg["fg1"].exc = "Unexpected"
    /\ fg["fg2"].pc = "acquire"
    /\ streaming
    /\ reader = "acquire"

C5_EchoRetries ==
    \A t \in FgThreads :
        LET f == fg[t]
            N == Max({f.retypes_arg, 0})
        IN f.check_echo =>
            /\ \A i \in 1 .. Len(f.sent) : startswith(f.sent[i], f.command)
            /\ Len(f.sent) <= N
            /\ f.exc = "EchoNotFound" => (f.echo_at = 0 /\ Len(f.sent) = N)
            /\ f.echo_at # 0 =>
                   /\ Len(f.sent) = f.echo_at
                   /\ f.pc \in {"sent", "fin_set", "fin_release"}
                   /\ f.exc = "none"
            /\ (f.pc \in {"sent", "fin_set", "fin_release"} /\ f.exc = "none") =>
                   f.echo_at # 0

\* the echo came after the second of two writes
C5_Witness ==
    /\ fg["fg1"].check_echo
    /\ fg["fg1"].retypes_arg = 2
    /\ fg["fg1"].echo_at = 2
    /\ Len(fg["fg1"].sent) = 2
    /\ fg["fg1"].pc = "fin_release"
    /\ fg["fg1"].exc = "none"

\* some pattern of the list other than TIMEOUT is found in the line
MatchesAny(patterns, line) ==
    \E i \in 1 .. Len(patterns) :
        /\ patterns[i].kind = "re"
        /\ re_search(patterns[i].text, line).matched

\* C6: a pulled line in which a not-expected pattern is found is the last
\* line of its cycle, and the cycle ends with the unexpected-pattern error
\* and never with a return, whether or not an expected pattern is found in
\* the same line or was found in an earlier one.
C6_UnexpectedRaises ==
    LET f == fg["fg1"] IN
    \A k \in 1 .. Len(f.cycle) :
        MatchesAny(f.not_expected, f.cycle[k]) =>
            /\ k = Len(f.cycle)
            /\ f.pc \in {"fin_set", "fin_release"}
            /\ f.exc = "Unexpected"
            /\ f.via = "none"

\* an expected pattern was found in the first line, and both an expected
\* and the not-expected pattern are in the second
C6_Witness ==
    /\ fg["fg1"].cycle = <<LineA, LineABPrompt>>
    /\ fg["fg1"].expected_found # None
    /\ fg["fg1"].exc = "Unexpected"

\* the lines of the cycle in which an expected pattern is found
HitLines(f) ==
    {k \in 1 .. Len(f.cycle) : MatchesAny(f.expected, f.cycle[k])}

\* the first pattern of the list found in the line
FirstHit(f, line) ==
    Min({i \in 1 .. Len(f.expected) :
            f.expected[i].kind = "re" /\ re_search(f.expected[i].text, line).matched})

\* the cycle has returned
Returned(f) ==
    /\ f.pc \in {"fin_set", "fin_release"}
    /\ f.exc = "none"
    /\ f.via \in {"decision", "timeout"}

\* C7: the match index a cycle returns and the text recorded as last
\* matched are those of the first pattern in list order found in the first
\* line in which any expected pattern is found, also for a pattern whose
\* match is the empty text.
C7_FirstMatchWins ==
    LET f == fg["fg1"] IN
    (Returned(f) /\ HitLines(f) # {}) =>
        LET line == f.cycle[Min(HitLines(f))]
            i == FirstHit(f, line)
        IN /\ f.found = i - 1
           /\ get_matched = re_search(f.expected[i].text, line).group

\* C8: a cycle that needs both the prompt and an expected pattern ends by
\* the success decision only when a line with the prompt and a line with
\* an expected pattern have both been pulled in it, and it goes on pulling
\* only while one of the two is still missing.
C8_PromptAndPattern ==
    LET f == fg["fg1"]
        prompt_seen ==
            \E k \in 1 .. Len(f.cycle) :
                re_search(f.expected_prompt_regex, f.cycle[k]).matched
    IN (f.wait_for_prompt /\ f.expected # <<>>) =>
           /\ f.via = "decision" =>
                  (prompt_seen /\ HitLines(f) # {} /\ f.found >= 0 /\ f.exc = "none")
           /\ f.pc = "expect_pull" => ~(prompt_seen /\ HitLines(f) # {})

\* the pattern came in the first line and the prompt in the second
C8_Witness ==
    /\ fg["fg1"].wait_for_prompt
    /\ fg["fg1"].cycle = <<LineA, LinePrompt>>
    /\ fg["fg1"].expected_prompt_regex # <<>>
    /\ fg["fg1"].via = "decision"
    /\ fg["fg1"].found = 0

\* the deadline of a cycle with timeout > 0 and the TIMEOUT sentinel among
\* its expected patterns has passed, and no expected pattern was found
SentinelCase(f) ==
    /\ f.pc \in {"fin_set", "fin_release"}
    /\ f.via = "timeout"
    /\ f.timeout > 0
    /\ \E i \in 1 .. Len(f.expected) : f.expected[i] = TIMEOUT
    /\ HitLines(f) = {}

\* C9, as stated: for every value of wait_for_prompt the cycle then
\* returns the list index of the sentinel and raises nothing.
C9_SentinelReturns ==
    LET f == fg["fg1"] IN
    SentinelCase(f) => (f.exc = "none" /\ f.found = IndexOfTimeout(f.expected))

\* C9, amended: the cycle then returns the list index of the sentinel and
\* raises nothing when the prompt is not waited for or was found in a
\* pulled line; when the prompt is waited for and was not found it raises
\* the prompt-not-found error.
C9_SentinelAfterPrompt ==
    LET f == fg["fg1"]
        prompt_seen ==
            \E k \in 1 .. Len(f.cycle) :
                re_search(f.expected_prompt_regex, f.cycle[k]).matched
    IN SentinelCase(f) =>
           IF ~f.wait_for_prompt \/ prompt_seen
           THEN f.exc = "none" /\ f.found = IndexOfTimeout(f.expected)
           ELSE f.exc = "PromptNotFound"

\* the prompt was waited for and came, the pattern did not: the sentinel's
\* index is returned
C9_Witness ==
    /\ SentinelCase(fg["fg1"])
    /\ fg["fg1"].wait_for_prompt
    /\ fg["fg1"].expected = <<RePat(<<"a">>), TIMEOUT>>
    /\ fg["fg1"].cycle = <<LinePrompt>>
    /\ fg["fg1"].found = 1

\* the sequence without its k-th element
RemoveAt(seq, k) == SubSeq(seq, 1, k - 1) \o SubSeq(seq, k + 1, Len(seq))

\* C10: after a cycle that waited for a prompt (the session's or the
\* call's own) and returned, get_output() is the captured lines joined by
\* newlines without the line in which the prompt was found, whichever of
\* the pattern line and the prompt line came first.
C10_OutputWithoutPrompt ==
    LET f == fg["fg1"]
        prompt_lines ==
            {k \in 1 .. Len(f.cycle) :
                re_search(f.expected_prompt_regex, f.cycle[k]).matched}
    IN (Returned(f) /\ f.via = "decision" /\ f.wait_for_prompt
        /\ f.expected_prompt_regex # <<>>) =>
           get_output = join(<<"\n">>, RemoveAt(output_lines, Min(prompt_lines)))

\* the expect cycle of the call has begun: the patterns are compiled, the
\* prompt is resolved and the cycle's state is reset
InCycle(f) == f.pc = "expect_pull" \/ f.cycle # <<>> \/ f.via \in {"decision", "timeout"}

\* C11: an expect cycle with no expected pattern, no not-expected pattern
\* and wait_for_prompt false raises the programming error at once: the
\* cycle never pulls with nothing to wait for, and the step that raises
\* leaves last_matched, output_lines and the stream as they were, pulling
\* no line.
C11_NothingToExpect ==
    /\ [](\A t \in FgThreads :
            /\ InCycle(fg[t]) =>
                   \/ fg[t].expected # <<>>
                   \/ fg[t].not_expected # <<>>
                   \/ fg[t].wait_for_prompt
            /\ fg[t].exc = "NothingToExpect" =>
                   (fg[t].cycle = <<>> /\ fg[t].pc \in {"fin_set", "fin_release"}))
    /\ [][\A t \in FgThreads :
            (fg[t].exc = "none" /\ fg'[t].exc = "NothingToExpect") =>
                /\ matched' = matched
                /\ output_lines' = output_lines
                /\ conn' = conn
                /\ buffer' = buffer]_vars

\* expect([]) raised after an earlier cycle had left a match and two lines
C11_Witness ==
    /\ fg["fg1"].exc = "NothingToExpect"
    /\ fg["fg1"].op = "expect"
    /\ matched = <<"a">>
    /\ Len(output_lines) = 2

\* C12: a cycle that waits for the prompt has a prompt to wait for: when
\* the call gives no prompt and the session has none, the effective prompt
\* regex is empty and the cycle raises a configuration error at once
\* instead of pulling lines and taking any line for the prompt.
C12_PromptRequired ==
    \A t \in FgThreads :
        (fg[t].wait_for_prompt /\ fg[t].expected_prompt_regex = <<>>) =>
            /\ fg[t].pc \in {"fin_set", "fin_release"}
            /\ fg[t].cycle = <<>>
            /\ fg[t].exc = "PromptMissing"

\* a line of the cycle holds the prompt
PromptSeen(f) ==
    \E k \in 1 .. Len(f.cycle) :
        re_search(f.expected_prompt_regex, f.cycle[k]).matched

\* C13: a cycle whose deadline passes without the success decision ends
\* in this order of priority: the prompt is waited for and was never
\* found: the prompt-not-found error; else there are no expected
\* patterns: NOT_EXPECTING is returned; else the TIMEOUT sentinel is among
\* the expected patterns: its index is returned; else the
\* expected-not-found error.  It ends in no other way, and only a cycle
\* with timeout > 0 ends so.
C13_TimeoutPriority ==
    \A t \in FgThreads :
        LET f == fg[t] IN
        f.via = "timeout" =>
            /\ f.timeout > 0
            /\ f.pc \in {"fin_set", "fin_release"}
            /\ IF f.wait_for_prompt /\ ~PromptSeen(f)
               THEN f.exc = "PromptNotFound"
               ELSE IF f.expected = <<>>
               THEN f.exc = "none" /\ f.found = NOT_EXPECTING
               ELSE IF \E i \in 1 .. Len(f.expected) : f.expected[i] = TIMEOUT
               THEN f.exc = "none" /\ f.found = IndexOfTimeout(f.expected)
               ELSE f.exc = "ExpectedNotFound"

\* the prompt came, the only expected pattern did not: the fourth outcome
C13_Witness ==
    /\ fg["fg1"].via = "timeout"
    /\ fg["fg1"].wait_for_prompt
    /\ fg["fg1"].cycle = <<LinePrompt, LineB>>
    /\ fg["fg1"].expected = <<RePat(<<"a">>)>>
    /\ fg["fg1"].exc = "ExpectedNotFound"

\* the condition of the success decision, from the first n lines of the
\* cycle: the prompt is not waited for or is in one of them, and an
\* expected pattern is found in one of them or no pattern was given
SatisfiedAt(f, n) ==
    /\ \/ ~f.wait_for_prompt
       \/ \E k \in 1 .. n : re_search(f.expected_prompt_regex, f.cycle[k]).matched
    /\ \/ \E k \in 1 .. n : MatchesAny(f.expected, f.cycle[k])
       \/ f.expected = <<>> /\ f.not_expected = <<>>

\* C14: the cycle returns by the success decision at the first line after
\* which the prompt is found or not waited for and an expected pattern
\* has been found or no pattern at all was given, and at no earlier line;
\* it goes on pulling only while that is not so; a cycle with not-expected
\* patterns only never returns by the decision, only at the deadline.
C14_DecisionAtFirstLine ==
    \A t \in FgThreads :
        LET f == fg[t]
            n == Len(f.cycle)
        IN /\ f.via = "decision" =>
                  /\ f.exc = "none"
                  /\ SatisfiedAt(f, n)
                  /\ \A m \in 0 .. n - 1 : ~SatisfiedAt(f, m)
           /\ f.pc = "expect_pull" => \A m \in 0 .. n : ~SatisfiedAt(f, m)
           /\ f.via = "timeout" => ~SatisfiedAt(f, n)
           /\ (InCycle(f) /\ f.expected = <<>> /\ f.not_expected # <<>>) =>
                  /\ f.via # "decision"
                  /\ (f.pc \in {"fin_set", "fin_release"} /\ f.exc = "none") =>
                         f.via = "timeout"

\* the prompt came in the first line, the pattern in the second
C14_Witness ==
    /\ fg["fg1"].via = "decision"
    /\ fg["fg1"].wait_for_prompt
    /\ fg["fg1"].expected_prompt_regex # <<>>
    /\ fg["fg1"].cycle = <<LinePrompt, LineA>>
    /\ fg["fg1"].found = 0

\* the call has returned a value
ReturnedValue(f) == f.pc \in {"fin_set", "fin_release"} /\ f.exc = "none"

\* the values a call may return: an index into its expected patterns,
\* NOT_EXPECTING or PROMPT_ONLY; PROMPT_ONLY only when the prompt was
\* waited for and found and no expected pattern was found
ValueInRange(f) ==
    /\ \/ f.found \in 0 .. Len(f.expected) - 1
       \/ f.found = NOT_EXPECTING
       \/ f.found = PROMPT_ONLY
    /\ f.found = PROMPT_ONLY =>
           (f.wait_for_prompt /\ PromptSeen(f) /\ HitLines(f) = {})

\* C15, as stated: every value returned is an index into the expected
\* patterns, NOT_EXPECTING or PROMPT_ONLY; NOT_EXPECTING only when no
\* expected and no not-expected pattern was given and the prompt was not
\* waited for; PROMPT_ONLY only when the prompt was waited for and found
\* and no expected pattern was found.
C15_ReturnValues ==
    \A t \in FgThreads :
        LET f == fg[t] IN
        ReturnedValue(f) =>
            /\ ValueInRange(f)
            /\ f.found = NOT_EXPECTING =>
                   (f.expected = <<>> /\ f.not_expected = <<>> /\ ~f.wait_for_prompt)

\* C15, amended: every value returned is an index into the expected
\* patterns, NOT_EXPECTING or PROMPT_ONLY; NOT_EXPECTING only when no
\* expected pattern was given, and then either nothing at all was asked
\* for (no cycle is run) or the deadline of the cycle has passed with the
\* prompt found or not waited for; PROMPT_ONLY only when the prompt was
\* waited for and found and no expected pattern was found.
C15_ReturnValuesAtDeadline ==
    \A t \in FgThreads :
        LET f == fg[t] IN
        ReturnedValue(f) =>
            /\ ValueInRange(f)
            /\ f.found = NOT_EXPECTING =>
                   /\ f.expected = <<>>
                   /\ \/ f.via = "skipped" /\ f.not_expected = <<>> /\ ~f.wait_for_prompt
                      \/ /\ f.via = "timeout"
                         /\ f.timeout > 0
                         /\ ~f.wait_for_prompt \/ PromptSeen(f)

\* NOT_EXPECTING returned at the deadline of a cycle that waited for the
\* prompt, found it, and had a not-expected pattern only
C15_Witness ==
    /\ ReturnedValue(fg["fg1"])
    /\ fg["fg1"].found = NOT_EXPECTING
    /\ fg["fg1"].wait_for_prompt
    /\ fg["fg1"].not_expected # <<>>
    /\ fg["fg1"].cycle = <<LineA, LinePrompt>>

\* C16: a cycle with timeout <= 0 never ends with an outcome of the
\* deadline (the prompt-not-found error, the expected-not-found error,
\* NOT_EXPECTING, the index of the TIMEOUT sentinel): when it has ended it
\* has ended by the success decision, by the unexpected-pattern error or
\* by an error of the line pull; until then it pulls.
C16_NoDeadline ==
    \A t \in FgThreads :
        LET f == fg[t] IN
        (InCycle(f) /\ f.timeout <= 0) =>
            /\ f.via # "timeout"
            /\ f.exc \notin {"PromptNotFound", "ExpectedNotFound"}
            /\ \/ f.pc = "expect_pull"
               \/ /\ f.pc \in {"fin_set", "fin_release"}
                  /\ \/ f.via = "decision" /\ f.exc = "none" /\ f.found # NOT_EXPECTING
                     \/ f.exc \in {"Unexpected", "SerialConnectionError", "OSError"}
            /\ ReturnedValue(f) => SatisfiedAt(f, Len(f.cycle))

\* a cycle with a negative timeout still pulls after three lines without
\* the pattern
C16_Witness ==
    /\ fg["fg1"].timeout < 0
    /\ fg["fg1"].pc = "expect_pull"
    /\ fg["fg1"].cycle = <<LineB, LineB, LineB>>
    /\ fg["fg1"].expected = <<RePat(<<"a">>), TIMEOUT>>

\* C17: close_console has cleared running while it waits for the reader;
\* it closes the stream only when no reader thread is alive, and once the
\* stream is closed the reader is in no part of its loop that pulls: the
\* reader never pulls from a stream that close_console has closed.
C17_CloseAfterReader ==
    /\ [](closer = "join" => ~running)
    /\ [](conn = "closed" =>
            (~running /\ reader \in {"unstarted", "outer", "finally", "done"}))
    /\ [][(conn # "closed" /\ conn' = "closed") =>
            (closer = "join" /\ closer' = "idle"
             /\ reader \in {"unstarted", "done"})]_vars

\* close_console waits while the reader is in a pull
C17_Witness ==
    /\ closer = "join"
    /\ reader = "pull"
    /\ conn = "open"
    /\ ~running

\* close_console has returned and the reader is not alive
CloseReturned == closer = "idle" /\ ~is_alive

\* C18, as stated: under weak fairness, when no foreground operation holds
\* the lock for ever, a close_console that has been called returns with
\* the reader ended.
C18_CloseReturns ==
    ([]<>(lock.owner \notin FgThreads)) => ((closer = "join") ~> CloseReturned)

\* C18, amended: under weak fairness, when from some time on no foreground
\* operation holds the lock, a close_console that has been called returns
\* with the reader ended, whichever state the reader was in.
C18_CloseReturnsWhenCallsEnd ==
    (<>[](lock.owner \notin FgThreads)) => ((closer = "join") ~> CloseReturned)

\* close_console has joined the reader and closed the stream
C18_Witness ==
    /\ closer = "idle"
    /\ reader = "done"
    /\ conn = "closed"
    /\ lock = LockFree
    /\ fg["fg1"].pc = "idle"

\* C19: the stream handle is closed once: every close_console returns with
\* the stream closed, the first one that finds it open closes it, and a
\* handle that is closed stays closed and is never closed again.
C19_ClosedOnce ==
    /\ [](conn \in {"open", "lost", "closed"})
    /\ [][(closer = "join" /\ closer' = "idle") => conn' = "closed"]_vars
    /\ [][conn = "closed" => conn' = "closed"]_vars

\* a later close_console is under way on the closed stream
C19_Witness ==
    /\ closer = "join"
    /\ conn = "closed"
    /\ reader = "done"

\* C20: a pull of the reader that raises (the stream ended, or its
\* descriptor is closed) takes the reader to its exit block, from any
\* other pull it goes on; the reader ends with the lock not held by it and
\* with running and streaming both cleared, and a reader that has ended
\* stays ended.
C20_ReaderExit ==
    /\ [][(reader = "pull" /\ reader' # "pull") =>
            IF conn' = "open" THEN reader' = "inner" ELSE reader' = "finally"]_vars
    /\ [][(reader = "finally" /\ reader' # "finally") =>
            /\ reader' = "done"
            /\ lock'.owner # ReaderThread
            /\ ~running'
            /\ ~streaming']_vars
    /\ [](reader = "done" => (lock.owner # ReaderThread /\ ~running))
    /\ [][reader = "done" => reader' = "done"]_vars

\* the reader has ended at the end of the stream; no close_console was
\* called
C20_Witness ==
    /\ reader = "done"
    /\ conn = "lost"
    /\ closer = "idle"
    /\ lock = LockFree
    /\ ~running
    /\ ~streaming


(***************************************************************************)
(* The messages of the exceptions.  A message is the sequence of its       *)
(* parts; the parts taken from the call's arguments are left out.          *)
(***************************************************************************)
connection_name == "ttyUSB0"

\* lines 441-448: the message is prefixed with the connection name
_raise_exception(exception_message) ==
    <<"[", connection_name, "]: ">> \o exception_message

\* the message of each exception of the model, as its raise builds it
Message(exc) ==
    CASE exc = "SerialConnectionError" ->
             _raise_exception(<<"EOF occurred - connection lost">>)
      [] exc = "EchoNotFound" -> _raise_exception(<<"Echo of command <", "> not found">>)
      [] exc = "NothingToExpect" ->
             <<"Either 'expected' or 'not_expected' value should be given while wait_for_prompt is disabled">>
      [] exc = "PromptMissing" ->
             <<"Prompt not provieded while wait_for_prompt is enabled">>
      [] exc = "Unexpected" -> _raise_exception(<<"Unexpected <", "> found!">>)
      [] exc = "PromptNotFound" -> _raise_exception(<<"Prompt <", "> not found">>)
      [] exc = "ExpectedNotFound" -> _raise_exception(<<"Expected <", "> not found!">>)
      [] exc = "PatternType" -> _raise_exception(<<" is not allowed type for pattern!">>)
      [] OTHER -> <<"Bad file descriptor">>

\* the errors the session raises itself (a read of a closed descriptor is
\* raised by the operating system)
SessionErrors ==
    {"SerialConnectionError", "EchoNotFound", "NothingToExpect", "PromptMissing",
     "Unexpected", "PromptNotFound", "ExpectedNotFound", "PatternType"}

\* C21: every error that send_command, expect or a line pull raises
\* (connection lost, echo not found, unexpected pattern, prompt not found,
\* pattern not found, invalid pattern type, and the two configuration
\* errors) has the connection name in its message.
C21_ErrorsNamed ==
    \A t \in FgThreads :
        fg[t].exc \in SessionErrors => Contains(Message(fg[t].exc), <<connection_name>>)

(***************************************************************************)
(* SpecDeliver: the reader and one caller of expect pull from a device     *)
(* that sends a script; every pull that returns is recorded.               *)
(***************************************************************************)
Scripts == {<<LineEcho, LineA>>, <<LineA, LineA, LinePrompt>>, <<LineB, LineA>>}
DeliverPulls == Pulls({LineEcho, LineA, LineB, LinePrompt}, {<<>>, CmdLs, LineA})

InitDeliver ==
    /\ SessionInit({PromptNone}, {{"fg1"}})
    /\ device \in {Scripted(script) : script \in Scripts}
    /\ call = NoCall
    /\ adb = NoAdb

NextDeliver ==
    \/ start
    \/ ReaderOuter
    \/ ReaderAcquire
    \/ ReaderInner
    \/ \E r \in DeliverPulls : Len(device.pulls) < MaxPulls /\ ReaderLine(r)
    \/ ReaderWait
    \/ ReaderFinally
    \/ expect("fg1")
    \/ FgAcquire("fg1")
    \/ BeginExpect("fg1", ListArg(<<PatA>>), ListArg(<<>>), 1, FALSE, PromptNone)
    \/ \E r \in DeliverPulls, over \in BOOLEAN :
           Len(device.pulls) < MaxPulls /\ ExpectLine("fg1", r, over)
    \/ FinSet("fg1")
    \/ FinRelease("fg1")

SpecDeliver == InitDeliver /\ [][NextDeliver]_vars

\* the complete lines among the pulls, in the order of the pulls
LinesPulled == SelectSeq(device.pulls, LAMBDA p : p.kind = "line")

\* C22: the complete lines the pulls return are the lines the device sent,
\* each once and in the device's order, whoever pulls (the i-th line pulled
\* is the i-th line sent: none twice, none skipped); the text handed back
\* at a poll timeout is the beginning of the line being sent, stays in the
\* stream and is returned again by the next pull.
C22_LinesOnceInOrder ==
    /\ Len(LinesPulled) <= Len(device.script)
    /\ \A i \in 1 .. Len(LinesPulled) : LinesPulled[i].text = device.script[i]
    /\ \A k \in 1 .. Len(device.pulls) :
           LET p == device.pulls[k]
               before == SelectSeq(SubSeq(device.pulls, 1, k - 1),
                                   LAMBDA q : q.kind = "line")
           IN  /\ p.at = Len(before) + 1
               /\ p.kind = "timeout" /\ p.at <= Len(device.script) =>
                      startswith(device.script[p.at], p.text)
               /\ p.kind = "timeout" /\ k < Len(device.pulls) =>
                      startswith(device.pulls[k + 1].text, p.text)

\* C22 as stated: no text is returned by two pulls, the text handed back at
\* a poll timeout included
C22_NoTextTwice ==
    \A i, j \in 1 .. Len(device.pulls) :
        i < j =>
            ~ /\ device.pulls[i].at = device.pulls[j].at
              /\ device.pulls[i].text # <<>>
              /\ device.pulls[j].text # <<>>

\* the reader and the caller have both pulled: two lines came, after a
\* pause of the device inside a line
C22_Witness ==
    /\ ~ device.any
    /\ Len(LinesPulled) = 2
    /\ \E k \in 1 .. Len(device.pulls) :
           device.pulls[k].kind = "timeout" /\ device.pulls[k].text # <<>>
    /\ fg["fg1"].cycle # <<>>
    /\ Len(fg["fg1"].cycle) < Len(device.pulls)

(***************************************************************************)
(* SpecPrompt: _get_prompt_regex is applied to a prompt specification and  *)
(* the regex is searched in a line, as line 378 of _expect does.           *)
(***************************************************************************)
PromptStrings ==
    {<<"$">>, <<"a", ".">>, <<"a", "|", "b">>, <<"\\", "d">>, <<"\\", "$", "a">>, <<"b">>}
PromptSpecs ==
    {PromptNone} \cup {PromptStr(x) : x \in PromptStrings}
        \cup {PromptList(<<x, y>>) : x, y \in PromptStrings}
PromptLines ==
    {<<>>, <<"a">>, <<"a", "b">>, <<"a", ".">>, <<"a", "|", "b">>, <<"$">>, <<"5">>,
     <<"\\", "d">>, <<"$", "a">>}

InitPrompt ==
    /\ SessionInit({PromptNone}, {{}})
    /\ device = AnyDevice
    /\ adb = NoAdb
    /\ call \in {[fn |-> "_get_prompt_regex", pc |-> "called", prompt |-> p,
                  line |-> l, regex |-> <<>>, found |-> FALSE] :
                     p \in PromptSpecs, l \in PromptLines}

\* expected_prompt_regex = self._get_prompt_regex(prompt)
PromptRegexBuilt ==
    /\ call.fn = "_get_prompt_regex"
    /\ call.pc = "called"
    /\ call' = [call EXCEPT !.pc = "built", !.regex = _get_prompt_regex(call.prompt)]
    /\ UNCHANGED <<session, adb>>

\* re.search(expected_prompt_regex, line)
PromptSearched ==
    /\ call.fn = "_get_prompt_regex"
    /\ call.pc = "built"
    /\ call' = [call EXCEPT !.pc = "searched",
                            !.found = re_search(call.regex, call.line).matched]
    /\ UNCHANGED <<session, adb>>

NextPrompt == PromptRegexBuilt \/ PromptSearched

SpecPrompt == InitPrompt /\ [][NextPrompt]_vars

\* the line holds the prompt string: the text itself, or for a string that
\* starts with a backslash a match of the string as a regular expression
HoldsPrompt(line, x) ==
    IF startswith(x, <<"\\">>) THEN re_search(x, line).matched ELSE Contains(line, x)

\* C23: the regex built from a prompt specification that names prompt
\* strings (one string, or a list of strings) matches a line exactly when
\* the line holds one of them: the text of a string that does not start
\* with a backslash, a match of a string that does; the regex of a list is
\* the alternation of its elements' regexes; for an absent prompt the regex
\* is empty.
C23_PromptRegex ==
    call.fn = "_get_prompt_regex" =>
        /\ call.pc # "called" /\ call.prompt.kind = "none" => call.regex = <<>>
        /\ call.pc # "called" /\ call.prompt.kind = "list" =>
               call.regex = join(<<"|">>, [i \in 1 .. Len(call.prompt.items) |->
                                   _get_prompt_regex(PromptStr(call.prompt.items[i]))])
        /\ call.pc = "searched" /\ call.prompt.kind # "none" =>
               (call.found <=>
                    \E i \in 1 .. Len(call.prompt.items) :
                        HoldsPrompt(call.line, call.prompt.items[i]))

\* the regex of a list of a literal with metacharacters and a ready-made
\* fragment was searched in a line that holds the fragment's match only
C23_Witness ==
    /\ call.fn = "_get_prompt_regex"
    /\ call.pc = "searched"
    /\ call.prompt = PromptList(<<<<"a", "|", "b">>, <<"\\", "d">>>>)
    /\ call.line = <<"5">>
    /\ call.found

(***************************************************************************)
(* SpecCompile: _compile_pattern_list is applied to one pattern and the    *)
(* result is searched in a line, as lines 380-383 of _expect do.           *)
(***************************************************************************)
PatternTexts == {<<"a">>, <<"l", ".">>, <<"x", "*">>, <<"a", "|", "b">>, <<"$">>}
PatternValues ==
    {StrPat(x) : x \in PatternTexts} \cup {RePat(x) : x \in PatternTexts} \cup {TIMEOUT}
PatternLines ==
    {<<>>, <<"a">>, <<"b">>, <<"l", "s">>, <<"l", ".">>, <<"x", "*">>, <<"a", "|", "b">>,
     <<"$">>}

InitCompile ==
    /\ SessionInit({PromptNone}, {{}})
    /\ device = AnyDevice
    /\ adb = NoAdb
    /\ call \in {[fn |-> "_compile_pattern_list", pc |-> "called", pattern |-> p,
                  line |-> l, compiled |-> <<>>, found |-> FALSE] :
                     p \in PatternValues, l \in PatternLines}

\* not_expected = self._compile_pattern_list(not_expected)
PatternCompiled ==
    /\ call.fn = "_compile_pattern_list"
    /\ call.pc = "called"
    /\ call' = [call EXCEPT !.pc = "compiled",
                            !.compiled = _compile_pattern_list(<<call.pattern>>)]
    /\ UNCHANGED <<session, adb>>

\* the scan of the patterns for one line
PatternSearched ==
    /\ call.fn = "_compile_pattern_list"
    /\ call.pc = "compiled"
    /\ call' = [call EXCEPT !.pc = "searched",
                            !.found = Unexpected(call.compiled, call.line)]
    /\ UNCHANGED <<session, adb>>

NextCompile == PatternCompiled \/ PatternSearched

SpecCompile == InitCompile /\ [][NextCompile]_vars

\* C24: a plain string given as a pattern is a literal: it is found in a
\* line exactly when the line contains its text, the metacharacters in it
\* meaning themselves; a pre-built regular expression is matched as one,
\* and the timeout sentinel is found in no line.
C24_StringsLiteral ==
    call.fn = "_compile_pattern_list" /\ call.pc = "searched" =>
        CASE call.pattern.kind = "str" ->
                 (call.found <=> Contains(call.line, call.pattern.text))
          [] call.pattern.kind = "re" ->
                 (call.found <=> re_search(call.pattern.text, call.line).matched)
          [] OTHER -> ~ call.found

(***************************************************************************)
(* local_console.execute_command.  The command's run is given by what      *)
(* subprocess.run does: it times out, or it completes with an exit code    *)
(* and the text of stdout and stderr.                                      *)
(***************************************************************************)
\* str.splitlines()
RECURSIVE splitlines(_, _, _)
splitlines(s, cur, acc) ==
    IF s = <<>> THEN (IF cur = <<>> THEN acc ELSE Append(acc, cur))
    ELSE IF Head(s) = "\n" THEN splitlines(Tail(s), <<>>, Append(acc, cur))
    ELSE splitlines(Tail(s), Append(cur, Head(s)), acc)

\* lines 96-101: with a regrep, the lines of the output in which it is found
Regrepped(cmd_output, regrep) ==
    IF regrep = None \/ regrep = Some(<<>>) THEN cmd_output
    ELSE join(<<"\n">>, SelectSeq(splitlines(cmd_output, <<>>, <<>>),
                                  LAMBDA line : re_search(regrep[1], line).matched))

Value(text) == [raised |-> "none", value |-> text]
Error(cls) == [raised |-> cls, value |-> <<>>]

\* the pattern is looked for before the exit code is looked at
execute_commandPatternFirst(c) ==
    IF c.timed_out THEN Error("TimeoutExpiredError")
    ELSE LET cmd_output == Regrepped(c.stdout, c.regrep) IN
         IF c.pattern # None /\ ~ re_search(c.pattern[1], cmd_output).matched
         THEN Error("PatternNotFoundError")
         ELSE IF c.assert_ok /\ c.returncode \notin c.valid_exit_codes
         THEN Error("CommandFailedError")
         ELSE IF c.pattern = None THEN Value(cmd_output)
         ELSE Value(re_search(c.pattern[1], cmd_output).group)

\* lines 74-119
execute_command(c) ==
    IF c.timed_out THEN Error("TimeoutExpiredError")
    ELSE LET cmd_output == Regrepped(c.stdout, c.regrep) IN
         IF c.assert_ok /\ c.returncode \notin c.valid_exit_codes
         THEN Error("CommandFailedError")
         ELSE IF c.pattern = None THEN Value(cmd_output)
         ELSE LET found == re_search(c.pattern[1], cmd_output) IN
              IF found.matched THEN Value(found.group)
              ELSE Error("PatternNotFoundError")

\* one call of execute_command
Execute ==
    /\ call.fn = "execute_command"
    /\ call.pc = "called"
    /\ call' = [call EXCEPT !.pc = "done", !.outcome = execute_command(call)]
    /\ UNCHANGED <<session, adb>>

Outputs ==
    {<<>>, <<"a", "\n", "b", "\n">>, <<"a", "b", "\n", "b", "a">>, <<"b", "\n">>}
OutputPatterns == {None, Some(<<"b">>), Some(<<"a", ".">>)}
Regreps == {None, Some(<<>>), Some(<<"a">>)}

InitExecute ==
    /\ SessionInit({PromptNone}, {{}})
    /\ device = AnyDevice
    /\ adb = NoAdb
    /\ call \in {[fn |-> "execute_command", pc |-> "called", timed_out |-> t,
                  returncode |-> rc, stdout |-> out, assert_ok |-> ok,
                  valid_exit_codes |-> valid, pattern |-> p, regrep |-> g,
                  outcome |-> Value(<<>>)] :
                     t \in BOOLEAN, rc \in 0 .. 2, out \in Outputs, ok \in BOOLEAN,
                     valid \in {{0}, {0, 1}}, p \in OutputPatterns, g \in Regreps}

NextExecute == Execute

SpecExecute == InitExecute /\ [][NextExecute]_vars

\* C25: a call of execute_command has one outcome, the first that applies
\* of: TimeoutExpiredError when the command timed out; CommandFailedError
\* when assert_ok is set and the exit code is not a valid one; with a
\* pattern, the fragment of the (regrep-filtered) output it matches, or
\* PatternNotFoundError when it matches nothing; without a pattern, the
\* (regrep-filtered) output.
C25_OneOutcome ==
    call.fn = "execute_command" /\ call.pc = "done" =>
        LET kept == Regrepped(call.stdout, call.regrep)
            failed == call.assert_ok /\ call.returncode \notin call.valid_exit_codes
            hit == IF call.pattern = None THEN NoMatch
                   ELSE re_search(call.pattern[1], kept)
        IN  /\ call.timed_out => call.outcome = Error("TimeoutExpiredError")
            /\ ~ call.timed_out /\ failed => call.outcome = Error("CommandFailedError")
            /\ ~ call.timed_out /\ ~ failed /\ call.pattern # None /\ hit.matched =>
                   call.outcome = Value(hit.group)
            /\ ~ call.timed_out /\ ~ failed /\ call.pattern # None /\ ~ hit.matched =>
                   call.outcome = Error("PatternNotFoundError")
            /\ ~ call.timed_out /\ ~ failed /\ call.pattern = None =>
                   call.outcome = Value(kept)

\* the command ended with an exit code that is not valid, unasserted; the
\* regrep removed the only line the pattern is in: PatternNotFoundError
C25_Witness ==
    /\ call.fn = "execute_command"
    /\ call.pc = "done"
    /\ ~ call.timed_out
    /\ call.returncode = 2
    /\ ~ call.assert_ok
    /\ call.stdout = <<"a", "\n", "b", "\n">>
    /\ call.regrep = Some(<<"a">>)
    /\ call.pattern = Some(<<"b">>)
    /\ call.outcome = Error("PatternNotFoundError")

(***************************************************************************)
(* config_file_parser.Config.  A document is a JSON value: a dict (a       *)
(* function on its keys), a list, a string, a number or null.  Texts are   *)
(* sequences of characters.                                                *)
(***************************************************************************)
Dict(f) == [kind |-> "dict", v |-> f]
List(s) == [kind |-> "list", v |-> s]
Str(s) == [kind |-> "str", v |-> s]
Num(n) == [kind |-> "int", v |-> n]
Null == [kind |-> "null", v |-> 0]

\* str.split(sep) for a separator of one character
RECURSIVE split(_, _, _, _)
split(s, sep, cur, acc) ==
    IF s = <<>> THEN Append(acc, cur)
    ELSE IF Head(s) = sep THEN split(Tail(s), sep, <<>>, Append(acc, cur))
    ELSE split(Tail(s), sep, Append(cur, Head(s)), acc)

DigitChars == <<"0", "1", "2", "3", "4", "5", "6", "7", "8", "9">>

RECURSIVE Decimal(_, _)
Decimal(digits, n) ==
    IF digits = <<>> THEN n
    ELSE Decimal(Tail(digits),
                 10 * n + (CHOOSE d \in 0 .. 9 : DigitChars[d + 1] = Head(digits)))

\* int(part_name): Some(number), or None for the ValueError
int(s) ==
    LET digits == IF s # <<>> /\ Head(s) \in {"-", "+"} THEN Tail(s) ELSE s
    IN  IF digits = <<>> \/ \E i \in 1 .. Len(digits) : digits[i] \notin Digits
        THEN None
        ELSE Some(IF Head(s) = "-" THEN 0 - Decimal(digits, 0) ELSE Decimal(digits, 0))

Found(value) == [status |-> "ok", value |-> value]
Stopped(status) == [status |-> status, value |-> Null]

\* pos_pointer[index] for a pos_pointer that is not a dict
Subscript(pos_pointer, index) ==
    IF pos_pointer.kind \notin {"list", "str"} THEN Stopped("TypeError")
    ELSE LET n == Len(pos_pointer.v)
             i == IF index < 0 THEN index + n + 1 ELSE index + 1
         IN  IF i < 1 \/ i > n THEN Stopped("IndexError")
             ELSE IF pos_pointer.kind = "list" THEN Found(pos_pointer.v[i])
             ELSE Found(Str(<<pos_pointer.v[i]>>))

\* the loop over the path parts (lines 64-74 and 102-112): the value
\* reached, or the part is missing (key not in the dict, or not a number
\* where an index is needed), or the subscript raises
RECURSIVE Walk(_, _)
Walk(pos_pointer, path_parts) ==
    IF path_parts = <<>> THEN Found(pos_pointer)
    ELSE LET part_name == Head(path_parts) IN
         IF pos_pointer.kind = "dict"
         THEN IF part_name \notin DOMAIN pos_pointer.v THEN Stopped("missing")
              ELSE Walk(pos_pointer.v[part_name], Tail(path_parts))
         ELSE IF int(part_name) = None THEN Stopped("missing")
         ELSE LET item == Subscript(pos_pointer, int(part_name)[1]) IN
              IF item.status # "ok" THEN item ELSE Walk(item.value, Tail(path_parts))

Gives(value) == [raised |-> "none", value |-> value]
Throws(cls) == [raised |-> cls, value |-> Null]
True == [kind |-> "bool", v |-> TRUE]
False == [kind |-> "bool", v |-> FALSE]

\* lines 52-75
has_entry(data, entry_path) ==
    LET end == Walk(data, split(entry_path, ".", <<>>, <<>>))
    IN  CASE end.status = "ok" -> Gives(True)
          [] end.status = "missing" -> Gives(False)
          [] OTHER -> Throws(end.status)

\* lines 92-113, under the decorator of lines 31-38
__getitem__(data, entry_path) ==
    LET end == Walk(data, split(entry_path, ".", <<>>, <<>>))
    IN  CASE end.status = "ok" -> Gives(end.value)
          [] end.status = "missing" -> Throws("ConfigFileParseError")
          [] OTHER -> Throws(end.status)

\* lines 77-90
get(data, entry_path, default) ==
    LET item == __getitem__(data, entry_path)
    IN  IF item.raised = "ConfigFileParseError" THEN Gives(default) ELSE item

Default == [kind |-> "default", v |-> 0]

Key(c) == <<c>>
Documents ==
    {Dict([k \in {Key("a"), Key("s"), Key("n"), Key("z")} |->
              CASE k = Key("a") -> List(<<Dict([j \in {Key("b")} |-> Num(1)]), Num(7)>>)
                [] k = Key("s") -> Str(<<"x", "y">>)
                [] k = Key("n") -> Num(5)
                [] OTHER -> Null]),
     Dict([k \in {Key("a")} |-> Dict([j \in {Key("b")} |-> Num(1)])]),
     Dict([k \in {Key("a"), Key("0")} |->
              IF k = Key("a") THEN List(<<List(<<Num(1), Num(2)>>)>>) ELSE Num(3)])}
Paths ==
    {<<"a">>, <<"a", ".", "0">>, <<"a", ".", "0", ".", "b">>, <<"a", ".", "1">>,
     <<"a", ".", "2">>, <<"a", ".", "-", "1">>, <<"a", ".", "x">>,
     <<"a", ".", "0", ".", "0">>, <<"a", ".", "0", ".", "1", "0">>, <<"a", ".", "b">>,
     <<"a", ".", "b", ".", "c">>, <<"s">>, <<"s", ".", "0">>, <<"s", ".", "2">>,
     <<"n", ".", "0">>, <<"n", ".", "x">>, <<"z", ".", "0">>, <<"d">>, <<>>, <<"0">>,
     <<"a", ".">>}

InitConfig ==
    /\ SessionInit({PromptNone}, {{}})
    /\ device = AnyDevice
    /\ adb = NoAdb
    /\ call \in {[fn |-> "Config", pc |-> "made", op |-> "none", data |-> d,
                  entry_path |-> p, outcome |-> Gives(Null)] :
                     d \in Documents, p \in Paths}

\* config.has_entry(entry_path)
HasEntry ==
    /\ call.fn = "Config"
    /\ call.pc = "made"
    /\ call' = [call EXCEPT !.pc = "done", !.op = "has_entry",
                            !.outcome = has_entry(call.data, call.entry_path)]
    /\ UNCHANGED <<session, adb>>

\* config.get(entry_path, default)
Get ==
    /\ call.fn = "Config"
    /\ call.pc = "made"
    /\ call' = [call EXCEPT !.pc = "done", !.op = "get",
                            !.outcome = get(call.data, call.entry_path, Default)]
    /\ UNCHANGED <<session, adb>>

\* config[entry_path]
GetItem ==
    /\ call.fn = "Config"
    /\ call.pc = "made"
    /\ call' = [call EXCEPT !.pc = "done", !.op = "__getitem__",
                            !.outcome = __getitem__(call.data, call.entry_path)]
    /\ UNCHANGED <<session, adb>>

NextConfig == HasEntry \/ Get \/ GetItem

SpecConfig == InitConfig /\ [][NextConfig]_vars

\* every part of the path resolves in the document: a key that is in the
\* dict, or a valid index of the list
RECURSIVE Resolves(_, _)
Resolves(doc, parts) ==
    \/ parts = <<>>
    \/ /\ doc.kind = "dict"
       /\ Head(parts) \in DOMAIN doc.v
       /\ Resolves(doc.v[Head(parts)], Tail(parts))
    \/ /\ doc.kind = "list"
       /\ int(Head(parts)) # None
       /\ int(Head(parts))[1] \in 0 .. Len(doc.v) - 1
       /\ Resolves(doc.v[int(Head(parts))[1] + 1], Tail(parts))

\* C26: for every document and every dotted path has_entry returns a
\* boolean and raises nothing: True when every part of the path resolves,
\* False otherwise (a list index out of range and a path that goes on below
\* a scalar included).
C26_HasEntryTotal ==
    call.fn = "Config" /\ call.op = "has_entry" =>
        /\ call.outcome.raised = "none"
        /\ call.outcome.value.kind = "bool"
        /\ call.outcome.value.v <=>
               Resolves(call.data, split(call.entry_path, ".", <<>>, <<>>))

\* C27: get returns the stored value when has_entry is true and the
\* default otherwise, and raises nothing; config[path] raises
\* ConfigFileParseError exactly when has_entry is false.
C27_GetTotal ==
    call.fn = "Config" /\ call.pc = "done" =>
        LET has == has_entry(call.data, call.entry_path) IN
        /\ call.op = "get" =>
               /\ call.outcome.raised = "none"
               /\ has.raised = "none"
               /\ (call.outcome.value.kind = "default") <=> ~ has.value.v
        /\ call.op = "__getitem__" =>
               /\ has.raised = "none"
               /\ (call.outcome.raised = "ConfigFileParseError") <=> ~ has.value.v
               /\ call.outcome.raised \in {"none", "ConfigFileParseError"}

(***************************************************************************)
(* config_file_parser.find_config_file.  A path is the sequence of its     *)
(* components; the file system is the set of the regular files and the set *)
(* of the directories.                                                     *)
(***************************************************************************)
DEFAULT_CONFIG_FILENAME == "device_config.json"
Cwd == <<"cwd">>
Home == <<"home">>

\* path.is_file(): path, else path / filename when path.is_dir() (lines
\* 204-209 and 218-223)
FileAtOrIn(c, p, filename) ==
    IF p \in c.files THEN Some(p)
    ELSE IF p \in c.dirs /\ Append(p, filename) \in c.files THEN Some(Append(p, filename))
    ELSE None

\* lines 200-210: os.getenv gives None for a variable that is not set
_config_file_from_variable(c, filename) ==
    IF c.env = None \/ c.env = Some(<<>>) THEN None
    ELSE FileAtOrIn(c, c.env[1], filename)

\* lines 213-224
_config_file_from_path(c, filename) ==
    IF c.path = None THEN None ELSE FileAtOrIn(c, c.path[1], filename)

\* lines 227-232
_config_file_from_cwd(c, filename) ==
    IF Append(Cwd, filename) \in c.files THEN Some(Append(Cwd, filename)) ELSE None

\* lines 235-240
_config_file_from_home_dir(c, filename) ==
    IF Append(Home, filename) \in c.files THEN Some(Append(Home, filename)) ELSE None

\* a or b, for values that are None or a path
Or(a, b) == IF a # None THEN a ELSE b

\* lines 263-275
find_config_file(c, filename) ==
    LET config_file ==
            Or(_config_file_from_path(c, filename),
               Or(_config_file_from_variable(c, filename),
                  Or(_config_file_from_cwd(c, filename),
                     _config_file_from_home_dir(c, filename))))
    IN  IF config_file = None THEN Error("ConfigFileParseError")
        ELSE Value(config_file[1])

\* one call of find_config_file
FindConfigFile ==
    /\ call.fn = "find_config_file"
    /\ call.pc = "called"
    /\ call' = [call EXCEPT !.pc = "done",
                            !.outcome = find_config_file(call, DEFAULT_CONFIG_FILENAME)]
    /\ UNCHANGED <<session, adb>>

\* what can be at a path: nothing, a file, a directory without or with
\* the file of the default name in it
At(p) ==
    {[files |-> {}, dirs |-> {}], [files |-> {p}, dirs |-> {}],
     [files |-> {}, dirs |-> {p}],
     [files |-> {Append(p, DEFAULT_CONFIG_FILENAME)}, dirs |-> {p}]}

InFolder(p) ==
    {[files |-> {}, dirs |-> {p}],
     [files |-> {Append(p, DEFAULT_CONFIG_FILENAME)}, dirs |-> {p}]}

InitFind ==
    /\ SessionInit({PromptNone}, {{}})
    /\ device = AnyDevice
    /\ adb = NoAdb
    /\ call \in {[fn |-> "find_config_file", pc |-> "called", env |-> e, path |-> p,
                  files |-> ae.files \cup ap.files \cup ac.files \cup ah.files,
                  dirs |-> ae.dirs \cup ap.dirs \cup ac.dirs \cup ah.dirs,
                  outcome |-> Value(<<>>)] :
                     e \in {None, Some(<<"e">>)}, p \in {None, Some(<<"p">>)},
                     ae \in At(<<"e">>), ap \in At(<<"p">>),
                     ac \in InFolder(Cwd), ah \in InFolder(Home)}

NextFind == FindConfigFile

SpecFind == InitFind /\ [][NextFind]_vars

\* C28: find_config_file returns the first candidate that is a file, in
\* the order: the path of the environment variable, the caller's path,
\* the default name in the working directory, the default name in the home
\* directory; it raises ConfigFileParseError exactly when no candidate is.
C28_FirstCandidate ==
    call.fn = "find_config_file" /\ call.pc = "done" =>
        LET candidates ==
                <<_config_file_from_variable(call, DEFAULT_CONFIG_FILENAME),
                  _config_file_from_path(call, DEFAULT_CONFIG_FILENAME),
                  _config_file_from_cwd(call, DEFAULT_CONFIG_FILENAME),
                  _config_file_from_home_dir(call, DEFAULT_CONFIG_FILENAME)>>
            there == {i \in 1 .. 4 : candidates[i] # None}
        IN  IF there = {} THEN call.outcome = Error("ConfigFileParseError")
            ELSE call.outcome = Value(candidates[Min(there)][1])

(***************************************************************************)
(* device_adb.adb_interface.Adb: its fields _adb_device_id and             *)
(* _ignore_ids, get_state and wait_for_state.  What adb answers is an      *)
(* input of each call: the ids "adb devices" lists, whether the listing    *)
(* fails, and the answer to "adb get-state".                               *)
(***************************************************************************)
DeviceState == {"device", "recovery", "offline", "unauthorized", "not found"}
UNAUTHORIZED == "unauthorized"
OFFLINE == "offline"
NO_ADB_DEVICE == "not found"

\* Python's truth value of an id: None and "" are false
IdGiven(adb_device_id) == adb_device_id # None /\ adb_device_id # Some("")

\* lines 67-70: the test of _validate_attributes (an empty collection and
\* None are both false)
_validate_attributes(adb_device_id, ignore_ids) ==
    ~ (IdGiven(adb_device_id) /\ ignore_ids # {})

\* lines 57-65: Adb(adb_device_id, ignore_ids)
AdbInit(adb_device_id, ignore_ids) ==
    /\ ~ adb.made
    /\ adb' = IF _validate_attributes(adb_device_id, ignore_ids)
              THEN [adb EXCEPT !.made = TRUE, !.adb_device_id = adb_device_id,
                               !.ignore_ids = ignore_ids, !.raised = "none"]
              ELSE [adb EXCEPT !.raised = "CopperCommError"]
    /\ UNCHANGED <<session, call>>

\* lines 76-80: adb.ignore_ids = ignore_ids
SetIgnoreIds(ignore_ids) ==
    /\ adb.made
    /\ adb.wait.pc # "loop"
    /\ adb' = IF _validate_attributes(adb.adb_device_id, ignore_ids)
              THEN [adb EXCEPT !.ignore_ids = ignore_ids, !.raised = "none"]
              ELSE [adb EXCEPT !.raised = "CopperCommError"]
    /\ UNCHANGED <<session, call>>

\* lines 498-501: adb.device_id = value
SetDeviceId(value) ==
    /\ adb.made
    /\ adb.wait.pc # "loop"
    /\ adb' = [adb EXCEPT !.adb_device_id = Some(value), !.raised = "none"]
    /\ UNCHANGED <<session, call>>

\* what adb answers to one get_state call
Answer(devices, listing, reply) ==
    [devices |-> devices, listing |-> listing, reply |-> reply]

State(adb_device_id, raised, value) ==
    [adb_device_id |-> adb_device_id, raised |-> raised, value |-> value]

\* lines 243-265: the answer of "adb get-state" for the device
StateOf(adb_device_id, reply) ==
    CASE reply = "TimeoutExpiredError" -> State(adb_device_id, reply, "none")
      [] reply = "more than one" -> State(adb_device_id, "CopperCommError", "none")
      [] reply = "unauthorized" -> State(adb_device_id, "none", UNAUTHORIZED)
      [] reply = "offline" -> State(adb_device_id, "none", OFFLINE)
      [] reply = "not found" -> State(adb_device_id, "none", NO_ADB_DEVICE)
      [] reply \in DeviceState -> State(adb_device_id, "none", reply)
      [] OTHER -> State(adb_device_id, "ValueError", "none")

\* lines 224-265
get_state(a, answer) ==
    IF IdGiven(a.adb_device_id) THEN StateOf(a.adb_device_id, answer.reply)
    ELSE IF answer.listing # "ok" THEN State(a.adb_device_id, answer.listing, "none")
    ELSE LET all_adb_devices == answer.devices \ a.ignore_ids IN
         IF Cardinality(all_adb_devices) > 1
         THEN State(a.adb_device_id, "CopperCommError", "none")
         ELSE IF Cardinality(all_adb_devices) = 1
         THEN StateOf(Some(CHOOSE id \in all_adb_devices : TRUE), answer.reply)
         ELSE State(a.adb_device_id, "none", NO_ADB_DEVICE)

\* adb.get_state()
GetState(answer) ==
    /\ adb.made
    /\ adb.wait.pc # "loop"
    /\ LET st == get_state(adb, answer)
       IN  adb' = [adb EXCEPT !.adb_device_id = st.adb_device_id,
                              !.raised = st.raised, !.value = st.value]
    /\ UNCHANGED <<session, call>>

\* lines 316-319: adb.wait_for_state(state)
WaitBegin(state) ==
    /\ adb.made
    /\ adb.wait.pc # "loop"
    /\ adb' = [adb EXCEPT !.raised = "none", !.value = "none",
                          !.wait = [pc |-> "loop", expected_state |-> state,
                                    polls |-> <<>>]]
    /\ UNCHANGED <<session, call>>

\* lines 320-329: the test of the deadline, and one turn of the loop; polls
\* records what each get_state of the call returned or raised
WaitTurn(answer, over) ==
    /\ adb.made
    /\ adb.wait.pc = "loop"
    /\ over \/ Len(adb.wait.polls) < MaxPolls
    /\ LET st == get_state(adb, answer)
           polled == Append(adb.wait.polls,
                            IF st.raised # "none" THEN st.raised ELSE st.value)
       IN  adb' =
               IF over
               THEN [adb EXCEPT !.raised = "Exception", !.wait.pc = "raised"]
               ELSE IF st.raised \in {"CommandFailedError", "ValueError"}
               THEN [adb EXCEPT !.adb_device_id = st.adb_device_id,
                                !.wait.polls = polled]
               ELSE IF st.raised # "none"
               THEN [adb EXCEPT !.adb_device_id = st.adb_device_id,
                                !.raised = st.raised, !.wait.polls = polled,
                                !.wait.pc = "raised"]
               ELSE IF st.value = UNAUTHORIZED
               THEN [adb EXCEPT !.adb_device_id = st.adb_device_id,
                                !.value = st.value, !.wait.polls = polled]
               ELSE IF st.value = adb.wait.expected_state
               THEN [adb EXCEPT !.adb_device_id = st.adb_device_id,
                                !.value = st.value, !.wait.polls = polled,
                                !.wait.pc = "returned"]
               ELSE [adb EXCEPT !.adb_device_id = st.adb_device_id,
                                !.value = st.value, !.wait.polls = polled]
    /\ UNCHANGED <<session, call>>

AdbIds == {"id1", "id2"}
Answers ==
    {Answer(devices, listing, reply) :
        devices \in SUBSET AdbIds, listing \in {"ok", "CommandFailedError"},
        reply \in {"device", "unauthorized", "offline", "starting", "more than one",
                   "TimeoutExpiredError"}}

InitAdb ==
    /\ SessionInit({PromptNone}, {{}})
    /\ device = AnyDevice
    /\ call = NoCall
    /\ adb = NoAdb

NextAdb ==
    \/ \E id \in {None, Some(""), Some("id1")}, ids \in SUBSET AdbIds : AdbInit(id, ids)
    \/ \E ids \in SUBSET AdbIds : SetIgnoreIds(ids)
    \/ \E value \in AdbIds : SetDeviceId(value)
    \/ \E answer \in Answers : GetState(answer)
    \/ \E state \in {"device", UNAUTHORIZED} : WaitBegin(state)
    \/ \E answer \in Answers, over \in BOOLEAN : WaitTurn(answer, over)

SpecAdb == InitAdb /\ [][NextAdb]_vars

\* C29: an Adb object never has an adb_device_id and ignore_ids that are
\* both non-empty, whatever construction, assignments of ignore_ids and of
\* device_id and get_state calls came before; an operation that would
\* establish both raises CopperCommError and leaves the two fields as
\* they were.
C29_IdOrIgnoreIds ==
    adb.made => ~ (IdGiven(adb.adb_device_id) /\ adb.ignore_ids # {})

\* C30: wait_for_state(s) returns exactly when a get_state poll before the
\* deadline reports s, at the first such poll: a call that has returned
\* ended with the first poll that reported s, and a call that is still
\* polling, or has raised, has seen no poll report s.
C30_ReturnsAtFirstReport ==
    LET w == adb.wait
        reports == {k \in 1 .. Len(w.polls) : w.polls[k] = w.expected_state}
    IN  /\ w.pc = "returned" => reports = {Len(w.polls)}
        /\ w.pc \in {"loop", "raised"} => reports = {}

(***************************************************************************)
(* The order of the tests on a pulled line (lines 376-416).                *)
(***************************************************************************)
\* the cycle of the call has ended on a line it pulled and processed
EndedOnLine(f) ==
    /\ f.pc \in {"fin_set", "fin_release"}
    /\ f.cycle # <<>>
    /\ f.exc \in {"none", "Unexpected", "PromptNotFound", "ExpectedNotFound"}

\* C31: each pulled line of an expect cycle goes through the prompt test,
\* the not-expected scan, the expected scan, the success decision and the
\* deadline test, in this order: a cycle that ended on a line in which a
\* not-expected pattern is found ended with the unexpected-pattern error,
\* also when that line holds the prompt and completes the success
\* condition; a cycle that ended on a line free of not-expected patterns
\* that completes the success condition ended with the success value, never
\* with an outcome of the deadline, whether or not the deadline had passed;
\* and every outcome of the deadline comes after at least one line was
\* pulled and processed.
C31_CheckOrder ==
    \A t \in FgThreads :
        LET f == fg[t]
            n == Len(f.cycle)
        IN /\ EndedOnLine(f) =>
                  IF Unexpected(f.not_expected, f.cycle[n])
                  THEN f.exc = "Unexpected"
                  ELSE IF SatisfiedAt(f, n)
                  THEN /\ f.via = "decision"
                       /\ f.exc = "none"
                       /\ f.found = DecisionValue(
                              IF HitLines(f) = {} THEN None
                              ELSE Some(f.found))
                  ELSE f.via = "timeout" /\ f.timeout > 0
           /\ (f.via = "timeout" \/ f.exc \in {"PromptNotFound", "ExpectedNotFound"}) =>
                  /\ n >= 1
                  /\ f.pc \in {"fin_set", "fin_release"}

\* one line holds the prompt waited for, the expected pattern and the
\* not-expected pattern: the cycle raises
C31_Witness ==
    /\ fg["fg1"].exc = "Unexpected"
    /\ fg["fg1"].wait_for_prompt
    /\ fg["fg1"].cycle = <<LineABPrompt>>
    /\ fg["fg1"].expected = <<RePat(<<"a">>)>>
    /\ fg["fg1"].not_expected = <<RePat(<<"b">>)>>
    /\ SatisfiedAt(fg["fg1"], 1)

(***************************************************************************)
(* What a send_command call has written when it ends.                      *)
(***************************************************************************)
\* the call has left its try block, by a return or by an exception
Exited(f) == f.pc \in {"fin_set", "fin_release"}

\* C32: a send_command call that returns or raises has written its command
\* to the stream at least once (or the write itself has failed), for every
\* check_echo, send_linebreak and max_retypes, max_retypes <= 0 included.
C32_WrittenBeforeExit ==
    \A t \in FgThreads :
        LET f == fg[t] IN
        (f.op = "send_command" /\ Exited(f)) =>
            \/ f.sent # <<>>
            \/ f.exc = "OSError"

(***************************************************************************)
(* The flags after the reader thread has stopped.                          *)
(***************************************************************************)
\* C33, as stated: once the reader thread has stopped, running and
\* streaming are both false, whatever foreground calls follow.
C33_StoppedTerminal == reader = "done" => (~running /\ ~streaming)

\* C33, amended: the reader thread stops once and for all, and its last
\* step leaves running and streaming false; running stays false from then
\* on; streaming does not: the finally block of every foreground call that
\* ends afterwards sets it, and nothing else does.
C33_StoppedKeepsRunningFalse ==
    /\ [][reader = "done" => (reader' = "done" /\ ~running')]_vars
    /\ [][(reader # "done" /\ reader' = "done") => (~running' /\ ~streaming')]_vars
    /\ [][(reader = "done" /\ streaming' # streaming) =>
            \E t \in FgThreads :
                \/ fg[t].pc = "idle" /\ fg'[t].pc = "acquire" /\ ~streaming'
                \/ fg[t].pc = "fin_set" /\ fg'[t].pc = "fin_release" /\ streaming']_vars

\* the reader has stopped at a close_console that has returned, and a
\* foreground call that ended afterwards has left streaming set
C33_Witness ==
    /\ reader = "done"
    /\ closer = "idle"
    /\ conn = "closed"
    /\ ~running
    /\ streaming
    /\ \A t \in FgThreads : fg[t].pc = "idle"

(***************************************************************************)
(* SpecEcho: one send_command call with the echo check and an expect       *)
(* cycle, against a device that sends a script; every pull that returns is *)
(* recorded.  No reader thread runs: the call holds the lock throughout.   *)
(***************************************************************************)
EchoScripts ==
    {<<LineEcho, LineA, LinePrompt>>, <<LineA, LineEcho, LineA>>, <<CmdLs \o LineA, LineA>>}
EchoPulls == Pulls({LineEcho, LineA, LinePrompt, CmdLs \o LineA}, {<<>>, CmdLs})

InitEcho ==
    /\ SessionInit({PromptNone}, {{"fg1"}})
    /\ device \in {Scripted(script) : script \in EchoScripts}
    /\ call = NoCall
    /\ adb = NoAdb

NextEcho ==
    \/ \E send_linebreak \in BOOLEAN :
           /\ device.pulls = <<>>
           /\ send_command("fg1", CmdLs, MaxRetypes, TRUE, send_linebreak)
    \/ FgAcquire("fg1")
    \/ \E ok \in BOOLEAN : _send_command("fg1", ok)
    \/ EchoWindowOpen("fg1")
    \/ EchoWindowOver("fg1")
    \/ \E r \in EchoPulls : Len(device.pulls) < MaxPulls /\ EchoLine("fg1", r)
    \/ \E e \in {ListArg(<<PatA>>), ListArg(<<StrPat(CmdLs)>>)}, timeout \in {0, 1} :
           BeginExpect("fg1", e, ListArg(<<PatB>>), timeout, FALSE, PromptNone)
    \/ \E r \in EchoPulls, over \in BOOLEAN :
           Len(device.pulls) < MaxPulls /\ ExpectLine("fg1", r, over)
    \/ FinSet("fg1")
    \/ FinRelease("fg1")

SpecEcho == InitEcho /\ [][NextEcho]_vars

\* the number of pulls of the call's echo check: the pulls before those of
\* its expect cycle
EchoPullCount(f) == Len(device.pulls) - Len(f.cycle)

\* the call's echo check is over and has found the echo
PastEcho(f) ==
    /\ f.op = "send_command"
    /\ f.check_echo
    /\ f.pc \in {"sent", "expect_pull"} \/ InCycle(f)

\* C36, as stated: no line pulled during the echo check of send_command, up
\* to and including the line with the echo, is pulled again, tested or
\* captured by the expect step: every pull of the expect cycle returns text
\* of a later line of the device than every pull of the echo check.
C36_EchoLinesNotCaptured ==
    LET f == fg["fg1"]
        k == EchoPullCount(f)
    IN PastEcho(f) =>
           \A i \in 1 .. k, j \in k + 1 .. Len(device.pulls) :
               device.pulls[i].at < device.pulls[j].at

\* C36, amended: the echo check ends at its first pull whose text holds the
\* echo, and the expect step starts with the next pull: the cycle's lines
\* and output_lines are the texts of the pulls after that one, in order.
\* Every line whose newline a pull of the echo check has consumed is an
\* earlier line of the device than every line of the cycle.  When the echo
\* was found in the text handed back at a poll timeout, that text is still
\* in the stream and the first pull of the cycle returns it again, followed
\* by the rest of the line.
C36_EchoLinesConsumedNotCaptured ==
    LET f == fg["fg1"]
        k == EchoPullCount(f)
        n == Len(device.pulls)
    IN PastEcho(f) =>
           /\ k >= 1
           /\ EchoFound(f.command, device.pulls[k].text)
           /\ \A i \in 1 .. k - 1 : ~EchoFound(f.command, device.pulls[i].text)
           /\ \A j \in 1 .. Len(f.cycle) : f.cycle[j] = device.pulls[k + j].text
           /\ InCycle(f) =>
                  output_lines = [j \in 1 .. Len(f.cycle) |-> StripCR(f.cycle[j])]
           /\ \A i \in 1 .. k, j \in k + 1 .. n :
                  IF device.pulls[i].kind = "line"
                  THEN device.pulls[i].at < device.pulls[j].at
                  ELSE device.pulls[i].at <= device.pulls[j].at
           /\ (device.pulls[k].kind = "timeout" /\ k < n) =>
                  /\ device.pulls[k + 1].at = device.pulls[k].at
                  /\ startswith(device.pulls[k + 1].text, device.pulls[k].text)

\* a line came before the echo; the cycle has captured the line after the
\* echo line and returned at the pattern in it
C36_Witness ==
    /\ device.script = <<LineA, LineEcho, LineA>>
    /\ Len(device.pulls) = 3
    /\ fg["fg1"].cycle = <<LineA>>
    /\ output_lines = <<LineA>>
    /\ fg["fg1"].via = "decision"
    /\ fg["fg1"].found = 0

(***************************************************************************)
(* SpecPause: the session of SpecClose, where also the caller blocked in   *)
(* acquire() goes on once the lock stays free.                             *)
(***************************************************************************)
SpecPause == InitClose /\ [][NextClose]_vars /\ FairClose /\ WF_vars(FgAcquire("fg1"))

\* C37: with one foreground caller, once the call has cleared streaming the
\* reader pulls only to complete the pull it was in or about to begin when
\* the flag was cleared (the caller is then still waiting for the lock): at
\* its next test of the drain loop it pulls no more and releases the lock,
\* and it leaves its wait for the flag only when streaming is set again or
\* running is cleared; under weak fairness the call waiting for the lock
\* acquires it.
C37_ReaderYields ==
    /\ [](reader = "pull" /\ ~streaming =>
              fg["fg1"].pc = "acquire" /\ lock.owner = ReaderThread)
    /\ [][(reader = "inner" /\ ~streaming /\ reader' # "inner") =>
              (reader' = "wait" /\ lock'.owner # ReaderThread)]_vars
    /\ [][(reader = "pull" /\ reader' # "pull") => reader' \in {"inner", "finally"}]_vars
    /\ [][(reader = "wait" /\ reader' # "wait") => (streaming \/ ~running)]_vars
    /\ [](lock.owner = "fg1" => reader \notin {"inner", "pull"})
    /\ (fg["fg1"].pc = "acquire") ~> (lock.owner = "fg1")

\* the call has cleared streaming and waits for the lock while the reader
\* is inside its one further pull
C37_Witness ==
    /\ reader = "pull"
    /\ running
    /\ ~streaming
    /\ lock.owner = ReaderThread
    /\ fg["fg1"].pc = "acquire"

(***************************************************************************)
(* get_output and the session's prompt.                                    *)
(***************************************************************************)
\* the first n lines of the cycle as they are captured, joined by newlines
CapturedJoined(f, n) == join(<<"\n">>, [j \in 1 .. n |-> StripCR(f.cycle[j])])

\* C38: get_output() is the captured lines joined by newlines, without the
\* last of them exactly when the session's prompt regex is non-empty at the
\* time of the call and with all of them otherwise, whether or not the
\* cycle waited for a prompt, whatever prompt the call itself named, and
\* whether or not the last line holds a prompt.
C38_OutputBySessionPrompt ==
    /\ get_output =
           join(<<"\n">>,
                SubSeq(output_lines, 1,
                       Len(output_lines) - (IF prompt_regex = <<>> THEN 0 ELSE 1)))
    /\ \A t \in FgThreads :
           LET f == fg[t]
               n == Len(f.cycle)
           IN (Exited(f) /\ InCycle(f)) =>
                  get_output =
                      IF prompt_regex = <<>> THEN CapturedJoined(f, n)
                      ELSE CapturedJoined(f, Max({n - 1, 0}))

\* the session has a prompt, the cycle did not wait for one and ended at a
\* pattern in its second line, which holds no prompt: the line is left out
C38_Witness ==
    /\ prompt_regex # <<>>
    /\ Exited(fg["fg1"])
    /\ fg["fg1"].via = "decision"
    /\ ~fg["fg1"].wait_for_prompt
    /\ fg["fg1"].cycle = <<LineB, LineA>>
    /\ get_output = LineB

(***************************************************************************)
(* send_command with nothing to wait for.                                  *)
(***************************************************************************)
\* C39: a send_command call with no expected pattern, no not-expected
\* pattern and wait_for_prompt false runs no expect cycle: after its send
\* step it returns NOT_EXPECTING without a pull, and the step leaves
\* last_matched and output_lines as the previous cycle left them; it never
\* raises the error of an expect cycle with nothing to wait for, and a
\* send_command call that does run a cycle was asked for a pattern or for
\* the prompt.
C39_NoCycleWithoutExpectation ==
    /\ [](\A t \in FgThreads :
              LET f == fg[t] IN
              /\ f.via = "skipped" =>
                     /\ f.op = "send_command"
                     /\ f.pc \in {"fin_set", "fin_release"}
                     /\ f.exc = "none"
                     /\ f.found = NOT_EXPECTING
                     /\ f.cycle = <<>>
              /\ f.op = "send_command" =>
                     /\ f.exc # "NothingToExpect"
                     /\ InCycle(f) =>
                            (f.expected # <<>> \/ f.not_expected # <<>> \/ f.wait_for_prompt))
    /\ [][\A t \in FgThreads :
              (fg[t].via # "skipped" /\ fg'[t].via = "skipped") =>
                  /\ fg[t].pc = "sent"
                  /\ fg[t].sent # <<>>
                  /\ matched' = matched
                  /\ output_lines' = output_lines
                  /\ get_output' = get_output
                  /\ device' = device
                  /\ buffer' = buffer]_vars

\* the call has returned after its send step; the pattern matched and the
\* lines captured by the cycle before it are still there
C39_Witness ==
    /\ fg["fg1"].via = "skipped"
    /\ fg["fg1"].sent = <<CmdLs \o <<"\n">>>>
    /\ fg["fg1"].found = NOT_EXPECTING
    /\ matched = <<"a">>
    /\ output_lines = <<LineB, LineA>>

(***************************************************************************)
(* Console.send_line_and_expect (console.py): the attempts of a            *)
(* send_command call on the session.  call holds the arguments, the loop's *)
(* position, the variable error, and what each attempt ended with.         *)
(***************************************************************************)
\* largest number_of_attempts a caller passes
MaxAttempts == 2

\* send_command's default for max_retypes, which send_line_and_expect does
\* not pass
DefaultMaxRetypes == 2

\* the class each exception of the session is raised with: _raise_exception
\* raises AssertionError unless told otherwise, CopperCommConnectionError
\* is an AssertionError, SerialConnectionError a RuntimeError
ExceptionClass(exc) ==
    CASE exc \in {"Unexpected", "ExpectedNotFound", "PatternType"} -> "AssertionError"
      [] exc \in {"EchoNotFound", "PromptNotFound"} -> "CopperCommConnectionError"
      [] exc = "SerialConnectionError" -> "RuntimeError"
      [] exc \in {"NothingToExpect", "PromptMissing"} -> "ValueError"
      [] OTHER -> "OSError"

\* an except clause that catches every exception
IsExceptionClass(exc) == TRUE

\* line 76: except AssertionError
IsAssertionError(exc) ==
    ExceptionClass(exc) \in {"AssertionError", "CopperCommConnectionError"}

InitAttempts ==
    /\ SessionInit({PromptDollar}, {{"fg1"}})
    /\ device = AnyDevice
    /\ adb = NoAdb
    /\ \E number_of_attempts \in 1 .. MaxAttempts, check_echo \in BOOLEAN,
          wait_for_prompt \in BOOLEAN,
          pattern \in {ListArg(<<PatA>>), ListArg(<<IntPat>>)} :
           call = [fn |-> "send_line_and_expect", pc |-> "for",
                   number_of_attempts |-> number_of_attempts,
                   check_echo |-> check_echo, pattern |-> pattern,
                   wait_for_prompt |-> wait_for_prompt,
                   made |-> 0, slept |-> 0, error |-> "none", attempts |-> <<>>,
                   raised |-> "none", value |-> NOT_EXPECTING]

\* line 65: for _ in range(number_of_attempts); line 79: raise error
AttemptNext ==
    /\ call.fn = "send_line_and_expect"
    /\ call.pc = "for"
    /\ call' = IF call.made < call.number_of_attempts
               THEN [call EXCEPT !.pc = "calling", !.made = @ + 1]
               ELSE [call EXCEPT !.pc = "raised", !.raised = call.error]
    /\ UNCHANGED <<session, adb>>

\* lines 67-75: the send_command call of the attempt begins
AttemptCall ==
    /\ call.pc = "calling"
    /\ send_command("fg1", CmdLs, DefaultMaxRetypes, call.check_echo, TRUE)

\* line 69: expected_in_output=pattern, and no not_expected
AttemptExpect(timeout) ==
    BeginExpect("fg1", call.pattern, ListArg(<<>>), timeout, call.wait_for_prompt,
                PromptNone)

\* the send_command call is about to return or to raise: what it ends with
AttemptEnds ==
    /\ call.pc = "calling"
    /\ fg["fg1"].pc = "fin_release"
    /\ call' = [call EXCEPT !.pc = "ending",
                            !.attempts = Append(@, [raised |-> fg["fg1"].exc,
                                                    value |-> fg["fg1"].found])]
    /\ UNCHANGED <<session, adb>>

\* lines 196-197: the call releases the lock and returns or raises
AttemptRelease ==
    /\ call.pc = "ending"
    /\ FinRelease("fg1")

\* lines 66-78: return the value; or catch the exception the except clause
\* is for, to sleep and keep it in error; or let the exception through
AttemptDone ==
    LET ended == call.attempts[Len(call.attempts)] IN
    /\ call.pc = "ending"
    /\ fg["fg1"].pc = "idle"
    /\ call' = IF ended.raised = "none"
               THEN [call EXCEPT !.pc = "returned", !.value = ended.value]
               ELSE IF IsAssertionError(ended.raised)
               THEN [call EXCEPT !.pc = "for", !.slept = @ + 1,
                                 !.error = ended.raised]
               ELSE [call EXCEPT !.pc = "raised", !.raised = ended.raised]
    /\ UNCHANGED <<session, adb>>

NextAttempts ==
    \/ AttemptNext
    \/ AttemptCall
    \/ FgAcquire("fg1")
    \/ \E ok \in BOOLEAN : _send_command("fg1", ok)
    \/ EchoWindowOpen("fg1")
    \/ EchoWindowOver("fg1")
    \/ \E r \in SpecPulls : EchoLine("fg1", r)
    \/ \E timeout \in {0, 1} : AttemptExpect(timeout)
    \/ \E r \in SpecPulls, over \in BOOLEAN : ExpectLine("fg1", r, over)
    \/ FinSet("fg1")
    \/ AttemptEnds
    \/ AttemptRelease
    \/ AttemptDone

SpecAttempts == InitAttempts /\ [][NextAttempts]_vars

\* the call of send_line_and_expect is over
AttemptsOver == call.pc \in {"returned", "raised"}

\* what holds of the attempts whichever failures are retried: at most
\* number_of_attempts send_command calls are made, one at a time; every
\* attempt but the last has failed and was followed by a wait; the call
\* returns the value of the first attempt that does not raise, lets an
\* exception that is not retried through at once, and raises the last error
\* when every attempt has failed and was waited after
AttemptsAsLooped(retried) ==
    LET a == call.attempts
        n == Len(a)
    IN /\ n <= call.made
       /\ call.made <= call.number_of_attempts
       /\ call.made <= call.slept + 1
       /\ \A i \in 1 .. n - 1 : a[i].raised \in retried
       /\ call.slept = Cardinality({i \in 1 .. n : a[i].raised \in retried})
              - (IF call.pc = "ending" /\ a[n].raised \in retried THEN 1 ELSE 0)
       /\ call.pc = "returned" =>
              /\ a[n].raised = "none"
              /\ call.value = a[n].value
              /\ call.raised = "none"
       /\ call.pc = "raised" =>
              /\ call.raised = a[n].raised
              /\ call.raised # "none"
              /\ IF call.raised \in retried
                 THEN n = call.number_of_attempts /\ call.slept = n
                 ELSE call.slept = n - 1
       /\ (AttemptsOver \/ call.pc = "ending") => n >= 1
       /\ (n >= 1 /\ a[n].raised \notin retried) => call.pc \in {"ending", "returned", "raised"}

\* C34, as stated: the failures after which a new attempt is made are echo
\* not found, prompt not found, pattern not found and unexpected pattern;
\* every other error, the errors of misuse included, propagates at once.
C34_RetriesFailuresOnly ==
    AttemptsAsLooped({"EchoNotFound", "PromptNotFound", "ExpectedNotFound", "Unexpected"})

\* C34, amended: the failures after which a new attempt is made are those
\* raised as AssertionError: echo not found, prompt not found, pattern not
\* found, unexpected pattern, and also the misuse error of a pattern that
\* is neither a string, a compiled pattern nor TIMEOUT; the end of the
\* stream (a RuntimeError) and an OSError propagate at once.
C34_RetriesAssertionErrors ==
    /\ AttemptsAsLooped({"EchoNotFound", "PromptNotFound", "ExpectedNotFound",
                         "Unexpected", "PatternType"})
    /\ \A i \in 1 .. Len(call.attempts) :
           call.attempts[i].raised \in
               {"none", "EchoNotFound", "PromptNotFound", "ExpectedNotFound",
                "Unexpected", "PatternType", "SerialConnectionError", "OSError"}

\* the first attempt found no echo, the second returned at the pattern
C34_Witness ==
    /\ call.fn = "send_line_and_expect"
    /\ call.pc = "returned"
    /\ call.number_of_attempts = 2
    /\ call.slept = 1
    /\ call.attempts = <<[raised |-> "EchoNotFound", value |-> NOT_EXPECTING],
                         [raised |-> "none", value |-> 0]>>

(***************************************************************************)
(* AdbLoggerThread (adb_logger_thread.py): the loop that starts the logged *)
(* command again whenever it is found not running.  call holds the         *)
(* thread's fields; files counts the files the provider has opened, and    *)
(* streak counts the latest starts in a row after which the command was    *)
(* found exited at the next turn of the loop with the adb connection       *)
(* established.                                                            *)
(***************************************************************************)
\* files the provider opens before the model stops following the thread
MaxFiles == 13

\* self._max_adb_hiccups = 10
_max_adb_hiccups == 10

ExitCodes == {0, 1, 255}

NoConnection == [state |-> "None", returncode |-> 0, seen_running |-> FALSE]
Popen == [state |-> "running", returncode |-> 0, seen_running |-> FALSE]

\* Popen.poll(): None while the process runs, its exit code afterwards
poll(connection) ==
    IF connection.state = "exited" THEN Some(connection.returncode) ELSE None

\* the truth value of self._connection.poll() at line 179: false for None
\* and for the exit code 0
PolledTrue(connection) == poll(connection) # None /\ poll(connection)[1] # 0

\* _is_logging
_is_logging(connection) == connection.state # "None" /\ poll(connection) = None

InitLogger ==
    /\ SessionInit({PromptNone}, {{}})
    /\ device = AnyDevice
    /\ adb = NoAdb
    /\ \E append_after_interrupt \in BOOLEAN :
           call = [fn |-> "_adb_loop", pc |-> "while",
                   append_after_interrupt |-> append_after_interrupt,
                   connection |-> NoConnection, stop_adb_loop |-> FALSE,
                   file |-> 0, adb_hiccup_counter |-> 0,
                   files |-> 0, streak |-> 0]

\* stop_logging()
stop_logging ==
    /\ call.fn = "_adb_loop"
    /\ call.pc # "stopped"
    /\ ~call.stop_adb_loop
    /\ call' = [call EXCEPT !.stop_adb_loop = TRUE]
    /\ UNCHANGED <<session, adb>>

\* the logged command exits
CommandExits(returncode) ==
    /\ call.fn = "_adb_loop"
    /\ call.connection.state = "running"
    /\ call' = [call EXCEPT !.connection.state = "exited",
                            !.connection.returncode = returncode]
    /\ UNCHANGED <<session, adb>>

\* lines 148-153 and 159: the head of the loop
LoopHead ==
    /\ call.fn = "_adb_loop"
    /\ call.pc = "while"
    /\ call' = IF call.stop_adb_loop THEN [call EXCEPT !.pc = "stopped"]
               ELSE IF ~_is_logging(call.connection)
               THEN [call EXCEPT !.pc = IF call.append_after_interrupt THEN "setup"
                                        ELSE "check"]
               ELSE [call EXCEPT !.connection.seen_running = TRUE,
                                 !.streak = 0]
    /\ UNCHANGED <<session, adb>>

\* _stop_if_cmd_consequently_exits_before_adb_looses_connection, lines
\* 174-199, called at line 154; established: what _is_connection_established
\* answers when it is asked
StopIfCmdExits(established) ==
    LET c == call.connection
        hiccup == PolledTrue(c) /\ established
        counter == IF hiccup THEN call.adb_hiccup_counter + 1 ELSE 0
        quick == c.state = "exited" /\ ~c.seen_running /\ established
    IN
    /\ call.fn = "_adb_loop"
    /\ call.pc = "check"
    /\ call' = [call EXCEPT !.adb_hiccup_counter = counter,
                            !.streak = IF quick THEN @ + 1 ELSE 0,
                            !.pc = IF hiccup /\ counter > _max_adb_hiccups
                                   THEN "stopped" ELSE "setup"]
    /\ UNCHANGED <<session, adb>>

\* lines 155-159 and 210-216: the connection is set up, the next file is
\* opened and the command is started (result = "ok"); or the set-up fails
\* with CalledProcessError (lines 160-164) or TimeoutExpired (lines 165-169)
SetupAndStart(result) ==
    LET new_file == ~call.append_after_interrupt \/ call.file = 0 IN
    /\ call.fn = "_adb_loop"
    /\ call.pc = "setup"
    /\ call.files < MaxFiles
    /\ call' =
         CASE result = "ok" ->
                [call EXCEPT !.pc = "while", !.connection = Popen,
                             !.files = IF new_file THEN @ + 1 ELSE @,
                             !.file = IF new_file THEN call.files + 1 ELSE @]
           [] result = "CalledProcessError" ->
                [call EXCEPT !.pc = "while", !.connection = NoConnection,
                             !.adb_hiccup_counter =
                                 IF call.append_after_interrupt THEN @ ELSE 0,
                             !.streak = 0]
           [] OTHER ->
                [call EXCEPT !.pc = "while", !.connection = NoConnection,
                             !.stop_adb_loop = TRUE, !.streak = 0]
    /\ UNCHANGED <<session, adb>>

NextLogger ==
    \/ stop_logging
    \/ \E returncode \in ExitCodes : CommandExits(returncode)
    \/ LoopHead
    \/ \E established \in BOOLEAN : StopIfCmdExits(established)
    \/ \E result \in {"ok", "CalledProcessError", "TimeoutExpired"} : SetupAndStart(result)

SpecLogger == InitLogger /\ [][NextLogger]_vars

\* C35: with append_after_interrupt false, the command is started at most
\* max_adb_hiccups + 1 times in a row when after each start it is found
\* exited, with whatever exit code, while the adb connection is
\* established: the thread then stops itself, so that the number of files
\* such starts create is bounded.
C35_RestartsBounded ==
    (call.fn = "_adb_loop" /\ ~call.append_after_interrupt) =>
        /\ call.streak <= _max_adb_hiccups + 1
        /\ call.streak = _max_adb_hiccups + 1 => call.pc = "stopped"

(***************************************************************************)
(* AdbStateMonitor and SshStateMonitor (device_state_monitor): a chain of  *)
(* threading.Timer threads, each of which, when its interval is over, runs *)
(* _run: it starts the next timer and polls; and stop(), called by another *)
(* thread.  call holds is_running, _timer (the number of the timer the     *)
(* field refers to), where each timer thread is, where stop() is, and in   *)
(* polls whether a poll was run after stop() had returned.                 *)
(***************************************************************************)
\* timers one monitor starts before the model stops following it
MaxTimers == 4

\* the constructor (lines 25-32): the first timer is started
InitMonitor ==
    /\ SessionInit({PromptNone}, {{}})
    /\ device = AnyDevice
    /\ adb = NoAdb
    /\ \E monitor \in {"AdbStateMonitor", "SshStateMonitor"} :
           call = [fn |-> monitor, is_running |-> TRUE, _timer |-> 1,
                   timers |-> <<"pending">>, stop |-> "idle", polls |-> 0]

IsMonitor == call.fn \in {"AdbStateMonitor", "SshStateMonitor"}

\* threading.Timer.run: the interval is over and the timer was not
\* cancelled: the function is called
TimerFires(i) ==
    /\ IsMonitor
    /\ i \in 1 .. Len(call.timers)
    /\ call.timers[i] = "pending"
    /\ call' = [call EXCEPT !.timers[i] = "_run"]
    /\ UNCHANGED <<session, adb>>

\* _run, line 35: self.is_running = False
RunClears(i) ==
    /\ IsMonitor
    /\ i \in 1 .. Len(call.timers)
    /\ call.timers[i] = "_run"
    /\ call' = [call EXCEPT !.is_running = FALSE, !.timers[i] = "start"]
    /\ UNCHANGED <<session, adb>>

\* start, line 48: if not self.is_running
RunTests(i) ==
    /\ IsMonitor
    /\ i \in 1 .. Len(call.timers)
    /\ call.timers[i] = "start"
    /\ call' = [call EXCEPT !.timers[i] = IF call.is_running THEN "poll" ELSE "Timer"]
    /\ UNCHANGED <<session, adb>>

\* start, lines 49-50: the next timer is made, kept in _timer and started
RunStartsTimer(i) ==
    /\ IsMonitor
    /\ i \in 1 .. Len(call.timers)
    /\ call.timers[i] = "Timer"
    /\ Len(call.timers) < MaxTimers
    /\ call' = [call EXCEPT !.timers = Append([@ EXCEPT ![i] = "set"], "pending"),
                            !._timer = Len(call.timers) + 1]
    /\ UNCHANGED <<session, adb>>

\* start, line 51: self.is_running = True
RunSets(i) ==
    /\ IsMonitor
    /\ i \in 1 .. Len(call.timers)
    /\ call.timers[i] = "set"
    /\ call' = [call EXCEPT !.is_running = TRUE, !.timers[i] = "poll"]
    /\ UNCHANGED <<session, adb>>

\* _run, lines 37-42 (adb) and 37 (ssh): the poll of the state
RunPolls(i) ==
    /\ IsMonitor
    /\ i \in 1 .. Len(call.timers)
    /\ call.timers[i] = "poll"
    /\ call' = [call EXCEPT !.timers[i] = "done",
                            !.polls = IF call.stop = "returned" THEN 1 ELSE @]
    /\ UNCHANGED <<session, adb>>

\* Timer.cancel(): a timer whose interval is not over never calls its
\* function; on any other timer it has no effect
cancel(timers, i) ==
    IF timers[i] = "pending" THEN [timers EXCEPT ![i] = "cancelled"] ELSE timers

\* stop, line 55: self._timer.cancel()
StopCancels ==
    /\ IsMonitor
    /\ call.stop = "idle"
    /\ call' = [call EXCEPT !.timers = cancel(@, call._timer), !.stop = "cancelled"]
    /\ UNCHANGED <<session, adb>>

\* stop, line 56: self.is_running = False, and stop returns
StopClears ==
    /\ IsMonitor
    /\ call.stop = "cancelled"
    /\ call' = [call EXCEPT !.is_running = FALSE, !.stop = "returned"]
    /\ UNCHANGED <<session, adb>>

NextMonitor ==
    \/ \E i \in 1 .. MaxTimers : TimerFires(i)
    \/ \E i \in 1 .. MaxTimers : RunClears(i)
    \/ \E i \in 1 .. MaxTimers : RunTests(i)
    \/ \E i \in 1 .. MaxTimers : RunStartsTimer(i)
    \/ \E i \in 1 .. MaxTimers : RunSets(i)
    \/ \E i \in 1 .. MaxTimers : RunPolls(i)
    \/ StopCancels
    \/ StopClears

SpecMonitor == InitMonitor /\ [][NextMonitor]_vars

\* C40: once stop() has returned, is_running is false, no timer is pending
\* and no poll is run, however stop() and a running _run interleave.
C40_StoppedForGood ==
    (IsMonitor /\ call.stop = "returned") =>
        /\ ~call.is_running
        /\ call.polls = 0
        /\ \A i \in 1 .. Len(call.timers) : call.timers[i] # "pending"
=============================================================================
